---- MODULE Spec2Model ----
(***************************************************************************)
(* Pixie Pal chat assistant: the conversation session of PixiePalChat      *)
(* (src/app/index.backup.tsx) with its query analyzer, pattern responder,  *)
(* AI fallback composer, data refresh and feedback handler, the            *)
(* wait-times service and the voice service of                             *)
(* src/services/PixiePalDataService.ts, the alert monitoring of            *)
(* PixiePalNotificationService and the press-and-hold button of            *)
(* src/components/VoiceInput.tsx.                                          *)
(*                                                                         *)
(* JavaScript strings are TLA+ strings; Len, \o and SubSeq act on them     *)
(* character by character, so String.includes is a real substring test.    *)
(* Emoji and markdown decoration of the answer templates is left out of    *)
(* the literals; every interpolated value and every word around it is kept.*)
(* Timestamps (new Date()) are not modelled.                               *)
(***************************************************************************)
EXTENDS Integers, Sequences, FiniteSets, TLC

(***************************************************************************)
(* String primitives of the JavaScript runtime.                            *)
(***************************************************************************)
CharAt(s, i) == SubSeq(s, i, i)

\* String.prototype.includes, for a non-empty needle
Includes(s, k) ==
    \E i \in 1..(Len(s) - Len(k) + 1) : SubSeq(s, i, i + Len(k) - 1) = k

UpperAlphabet == "ABCDEFGHIJKLMNOPQRSTUVWXYZ"

LowerAlphabet == "abcdefghijklmnopqrstuvwxyz"

LowerChar(c) ==
    IF \E i \in 1..Len(UpperAlphabet) : CharAt(UpperAlphabet, i) = c
    THEN CharAt(LowerAlphabet,
                CHOOSE i \in 1..Len(UpperAlphabet) : CharAt(UpperAlphabet, i) = c)
    ELSE c

RECURSIVE toLowerCase(_)
toLowerCase(s) ==
    IF Len(s) = 0 THEN ""
    ELSE LowerChar(CharAt(s, 1)) \o toLowerCase(SubSeq(s, 2, Len(s)))

IsSpace(c) == c \in {" ", "\t", "\n", "\r"}

RECURSIVE trimStart(_)
trimStart(s) ==
    IF Len(s) > 0 /\ IsSpace(CharAt(s, 1)) THEN trimStart(SubSeq(s, 2, Len(s)))
    ELSE s

RECURSIVE trimEnd(_)
trimEnd(s) ==
    IF Len(s) > 0 /\ IsSpace(CharAt(s, Len(s))) THEN trimEnd(SubSeq(s, 1, Len(s) - 1))
    ELSE s

\* String.prototype.trim
trim(s) == trimEnd(trimStart(s))

\* String.prototype.indexOf for a one-character needle, 1-based; 0 when absent
IndexOf(s, c) ==
    IF \E i \in 1..Len(s) : CharAt(s, i) = c
    THEN CHOOSE i \in 1..Len(s) :
            CharAt(s, i) = c /\ \A j \in 1..(i - 1) : CharAt(s, j) # c
    ELSE 0

\* String.prototype.split(sep) for a one-character separator
RECURSIVE split(_, _)
split(s, sep) ==
    IF IndexOf(s, sep) = 0 THEN <<s>>
    ELSE <<SubSeq(s, 1, IndexOf(s, sep) - 1)>>
         \o split(SubSeq(s, IndexOf(s, sep) + 1, Len(s)), sep)

RECURSIVE join(_, _)
join(parts, sep) ==
    IF Len(parts) = 0 THEN ""
    ELSE IF Len(parts) = 1 THEN parts[1]
    ELSE parts[1] \o sep \o join(Tail(parts), sep)

Digits == "0123456789"

IsDigit(c) == \E d \in 1..Len(Digits) : CharAt(Digits, d) = c

DigitValue(c) == (CHOOSE d \in 1..Len(Digits) : CharAt(Digits, d) = c) - 1

RECURSIVE DigitPrefixValue(_, _)
DigitPrefixValue(s, acc) ==
    IF Len(s) > 0 /\ IsDigit(CharAt(s, 1))
    THEN DigitPrefixValue(SubSeq(s, 2, Len(s)), acc * 10 + DigitValue(CharAt(s, 1)))
    ELSE acc

\* parseInt after the sign: the longest run of decimal digits, NaN when there is none
parseUnsigned(body, neg) ==
    IF Len(body) > 0 /\ IsDigit(CharAt(body, 1))
    THEN [nan |-> FALSE,
          n |-> IF neg THEN 0 - DigitPrefixValue(body, 0) ELSE DigitPrefixValue(body, 0)]
    ELSE [nan |-> TRUE, n |-> 0]

\* parseInt after the leading white space: an optional sign
parseTrimmed(t) ==
    IF Len(t) > 0 /\ CharAt(t, 1) \in {"-", "+"}
    THEN parseUnsigned(SubSeq(t, 2, Len(t)), CharAt(t, 1) = "-")
    ELSE parseUnsigned(t, FALSE)

\* parseInt(s): leading white space, an optional sign, then the longest run of
\* decimal digits; NaN when there is no digit.
parseInt(s) == parseTrimmed(trimStart(s))

(***************************************************************************)
(* JSON values whose type the code does not fix (fields of `any` records). *)
(***************************************************************************)
JStr(s) == [t |-> "string", s |-> s, n |-> 0]

JNum(n) == [t |-> "number", s |-> "", n |-> n]

JNull == [t |-> "null", s |-> "", n |-> 0]

\* the value a throwing call leaves its caller with
Thrown == [t |-> "throw", s |-> "", n |-> 0]

\* ToBoolean
Truthy(v) ==
    CASE v.t = "string" -> v.s # ""
      [] v.t = "number" -> v.n # 0
      [] OTHER -> FALSE

\* the text a template literal interpolates for a value
Interpolate(v) ==
    CASE v.t = "string" -> v.s
      [] v.t = "number" -> ToString(v.n)
      [] OTHER -> "null"

(***************************************************************************)
(* Static tables of the chat screen.                                       *)
(***************************************************************************)
ParkIds == {"magicKingdom", "epcot", "hollywoodStudios", "animalKingdom"}

ExtendedParkIds == ParkIds \cup {"disneySprings", "resorts"}

\* analysis.targetPark when no park keyword matches (null)
NoPark == "none"

PARK_NAMES ==
    [magicKingdom |-> "Magic Kingdom",
     epcot |-> "EPCOT",
     hollywoodStudios |-> "Disney's Hollywood Studios",
     animalKingdom |-> "Disney's Animal Kingdom",
     disneySprings |-> "Disney Springs",
     resorts |-> "Resorts"]

\* PARKS: the buttons of the park selector, in display order
PARKS ==
    <<"magicKingdom", "epcot", "hollywoodStudios", "animalKingdom",
      "disneySprings", "resorts">>

\* Object.entries(ATTRACTION_TO_PARK), in insertion order
ATTRACTION_TO_PARK ==
    << <<"space mountain", "magicKingdom">>,
       <<"pirates of the caribbean", "magicKingdom">>,
       <<"haunted mansion", "magicKingdom">>,
       <<"big thunder mountain", "magicKingdom">>,
       <<"seven dwarfs mine train", "magicKingdom">>,
       <<"tiana's bayou adventure", "magicKingdom">>,
       <<"jungle cruise", "magicKingdom">>,
       <<"splash mountain", "magicKingdom">>,
       <<"tron lightcycle run", "magicKingdom">>,
       <<"guardians of the galaxy", "epcot">>,
       <<"test track", "epcot">>,
       <<"spaceship earth", "epcot">>,
       <<"frozen ever after", "epcot">>,
       <<"soarin", "epcot">>,
       <<"mission space", "epcot">>,
       <<"rise of the resistance", "hollywoodStudios">>,
       <<"millennium falcon", "hollywoodStudios">>,
       <<"tower of terror", "hollywoodStudios">>,
       <<"rock n roller coaster", "hollywoodStudios">>,
       <<"slinky dog dash", "hollywoodStudios">>,
       <<"mickey and minnie's runaway railway", "hollywoodStudios">>,
       <<"avatar flight of passage", "animalKingdom">>,
       <<"expedition everest", "animalKingdom">>,
       <<"kilimanjaro safaris", "animalKingdom">>,
       <<"dinosaur", "animalKingdom">>,
       <<"navi river journey", "animalKingdom">> >>

(***************************************************************************)
(* formatTime, formatDate, analyzeQuery: the pure helpers.                 *)
(***************************************************************************)
\* formatHour without the case of noon
formatHour_NoNoon(hour24, minutes) ==
    IF hour24.nan THEN JStr("NaN:" \o minutes \o " PM")
    ELSE IF hour24.n = 0 THEN JStr("12:" \o minutes \o " AM")
    ELSE IF hour24.n < 12 THEN JStr(ToString(hour24.n) \o ":" \o minutes \o " AM")
    ELSE JStr(ToString(hour24.n - 12) \o ":" \o minutes \o " PM")

\* the four returns of formatTime after the split
formatHour(hour24, minutes) ==
    IF hour24.nan THEN JStr("NaN:" \o minutes \o " PM")
    ELSE IF hour24.n = 0 THEN JStr("12:" \o minutes \o " AM")
    ELSE IF hour24.n < 12 THEN JStr(ToString(hour24.n) \o ":" \o minutes \o " AM")
    ELSE IF hour24.n = 12 THEN JStr("12:" \o minutes \o " PM")
    ELSE JStr(ToString(hour24.n - 12) \o ":" \o minutes \o " PM")

\* const [hours, minutes] = militaryTime.split(':'); const hour24 = parseInt(hours)
formatParts(parts) == formatHour(parseInt(parts[1]), parts[2])

\* formatTime without the test of !militaryTime
formatTime_NoGuard(militaryTime) ==
    IF militaryTime.t # "string" THEN Thrown
    ELSE IF ~Includes(militaryTime.s, ":") THEN militaryTime
    ELSE formatParts(split(militaryTime.s, ":"))

\* formatTime(militaryTime): militaryTime.includes is a TypeError on a number
formatTime(militaryTime) ==
    IF ~Truthy(militaryTime) THEN militaryTime
    ELSE IF militaryTime.t # "string" THEN Thrown
    ELSE IF ~Includes(militaryTime.s, ":") THEN militaryTime
    ELSE formatParts(split(militaryTime.s, ":"))

\* formatDate after the split: month-day-year when there are three parts
reorderDate(parts, dateString) ==
    IF Len(parts) = 3
    THEN JStr(parts[2] \o "-" \o parts[3] \o "-" \o parts[1])
    ELSE dateString

\* formatDate(dateString)
formatDate(dateString) ==
    IF ~Truthy(dateString) THEN dateString
    ELSE IF dateString.t # "string" THEN Thrown
    ELSE IF ~Includes(dateString.s, "-") THEN dateString
    ELSE reorderDate(split(dateString.s, "-"), dateString)

\* the targetPark chain of analyzeQuery
\* analyzeTargetPark testing EPCOT before Magic Kingdom
analyzeTargetPark_EpcotFirst(lower) ==
    IF Includes(lower, "epcot") \/ Includes(lower, "ep") THEN "epcot"
    ELSE IF Includes(lower, "mk") \/ Includes(lower, "magic kingdom") THEN "magicKingdom"
    ELSE IF Includes(lower, "hollywood") \/ Includes(lower, "hs") THEN "hollywoodStudios"
    ELSE IF Includes(lower, "animal") \/ Includes(lower, "ak") THEN "animalKingdom"
    ELSE NoPark

analyzeTargetPark(lower) ==
    IF Includes(lower, "mk") \/ Includes(lower, "magic kingdom") THEN "magicKingdom"
    ELSE IF Includes(lower, "epcot") \/ Includes(lower, "ep") THEN "epcot"
    ELSE IF Includes(lower, "hollywood") \/ Includes(lower, "hs") THEN "hollywoodStudios"
    ELSE IF Includes(lower, "animal") \/ Includes(lower, "ak") THEN "animalKingdom"
    ELSE NoPark

\* the record analyzeQuery returns, from the lower-cased input
analyzeLower(lower) ==
        [isTimeQuery |->
            Includes(lower, "time") \/ Includes(lower, "hours")
            \/ Includes(lower, "open") \/ Includes(lower, "close"),
         isSpecificLocationTime |->
            Includes(lower, "fairytale hall") \/ Includes(lower, "princess fairytale hall")
            \/ Includes(lower, "fairy hall") \/ Includes(lower, "theater")
            \/ Includes(lower, "sideshow"),
         isCharacterQuery |->
            Includes(lower, "character") \/ Includes(lower, "meet")
            \/ Includes(lower, "mickey")
            \/ (Includes(lower, "princess") /\ ~Includes(lower, "fairytale")
                /\ ~Includes(lower, "fairy hall")
                /\ ~Includes(lower, "princess fairytale hall")),
         isSpecificCharacterLocation |->
            Includes(lower, "fairytale hall") \/ Includes(lower, "princess fairytale hall")
            \/ Includes(lower, "fairy hall") \/ Includes(lower, "town square theater")
            \/ Includes(lower, "pete's silly sideshow"),
         isEntertainmentQuery |->
            Includes(lower, "show") \/ Includes(lower, "parade")
            \/ Includes(lower, "firework") \/ Includes(lower, "entertainment"),
         isFireworksQuery |-> Includes(lower, "firework"),
         isShowQuery |->
            Includes(lower, "show") /\ ~Includes(lower, "firework")
            /\ ~Includes(lower, "parade"),
         isParadeQuery |-> Includes(lower, "parade"),
         isAttractionQuery |->
            Includes(lower, "ride") \/ Includes(lower, "attraction")
            \/ Includes(lower, "wait"),
         isCrossParks |->
            Includes(lower, "flight of passage") \/ Includes(lower, "rise of the resistance")
            \/ Includes(lower, "frozen ever after"),
         targetPark |-> analyzeTargetPark(lower)]

\* analyzeQuery(input): const lower = input.toLowerCase()
analyzeQuery(input) == analyzeLower(toLowerCase(input))

(***************************************************************************)
(* The park data proxy (disney-data-proxy): what each endpoint serves when *)
(* it answers 2xx.  Optional JSON fields that the code reads only through  *)
(* `||` or `?.` are "" or << >> when absent.                               *)
(***************************************************************************)
Categories == {"waitTimes", "entertainment", "characterMeets", "parkHours"}

\* how one request to the proxy ends
\* "ok" is a 2xx response with the park's body below, "ok_empty" a 2xx response
\* whose body is {}
ProxyOutcomes == {"ok", "ok_empty", "http_error", "network_error"}

\* response.ok
ResponseOk(outcome) == outcome \in {"ok", "ok_empty"}

RawAttraction(id, name, land, waitTime, isOpen, ll, fastPass) ==
    [id |-> id, name |-> name, land |-> land, area |-> "", waitTime |-> waitTime,
     isOpen |-> isOpen, hasLightningLane |-> ll, fastPassAvailable |-> fastPass]

\* GET /api/disney/wait-times/<park>
WaitTimesBody(park) ==
    CASE park = "magicKingdom" ->
            [hasAttractions |-> TRUE,
             attractions |->
                <<RawAttraction("sm", "Space Mountain", "Tomorrowland", JNum(45),
                                "true", TRUE, FALSE),
                  RawAttraction("hm", "Haunted Mansion", "", JNum(20),
                                "false", FALSE, FALSE),
                  RawAttraction("pp", "Peter Pan's Flight", "Fantasyland", JNum(70),
                                "true", TRUE, FALSE),
                  RawAttraction("sw", "It's a Small World", "Fantasyland", JNum(15),
                                "true", FALSE, FALSE),
                  RawAttraction("df", "Dumbo the Flying Elephant", "Fantasyland",
                                JNum(10), "true", FALSE, FALSE),
                  RawAttraction("bl", "Buzz Lightyear's Space Ranger Spin",
                                "Tomorrowland", JNum(25), "true", FALSE, FALSE)>>]
      [] park = "epcot" ->
            [hasAttractions |-> TRUE,
             attractions |->
                <<RawAttraction("", "Test Track", "World Discovery", JNum(60),
                                "undefined", FALSE, FALSE)>>]
      [] park = "hollywoodStudios" ->
            [hasAttractions |-> FALSE, attractions |-> << >>]
      [] OTHER ->
            [hasAttractions |-> TRUE,
             attractions |->
                <<RawAttraction("ee", "Expedition Everest", "Asia", JNull,
                                "false", FALSE, TRUE)>>]

Show(name, type, times, location) ==
    [name |-> name, type |-> type, times |-> times, location |-> location, land |-> ""]

\* GET /api/disney/entertainment/<park>
EntertainmentBody(park) ==
    CASE park = "magicKingdom" ->
            [hasEntertainment |-> TRUE,
             entertainment |->
                <<Show("Festival of Fantasy Parade", "parade", <<"12:00", "15:00">>,
                       "Main Street USA"),
                  Show("Happily Ever After", "fireworks", << >>, "")>>]
      [] park = "epcot" ->
            [hasEntertainment |-> TRUE, entertainment |-> << >>]
      [] park = "hollywoodStudios" ->
            [hasEntertainment |-> FALSE, entertainment |-> << >>]
      [] OTHER ->
            [hasEntertainment |-> TRUE,
             entertainment |->
                <<Show("Adventurers Outpost", "character-meet", <<"10:00">>,
                       "Discovery Island")>>]

Meet(characters, character, location, times, time) ==
    [characters |-> characters, character |-> character, location |-> location,
     times |-> times, time |-> time]

\* GET /api/disney/character-meets/<park>
CharacterMeetsBody(park) ==
    CASE park = "magicKingdom" ->
            [hasCharacterMeets |-> TRUE,
             characterMeets |->
                <<Meet(<<"Mickey Mouse">>, "", "Town Square Theater",
                       <<"09:00", "13:00">>, "")>>]
      [] park = "epcot" ->
            [hasCharacterMeets |-> TRUE,
             characterMeets |-> <<Meet(<< >>, "Anna", "Norway Pavilion", << >>, "11:30")>>]
      [] park = "hollywoodStudios" ->
            [hasCharacterMeets |-> TRUE, characterMeets |-> << >>]
      [] OTHER ->
            [hasCharacterMeets |-> FALSE, characterMeets |-> << >>]

Day(date, openingTime, closingTime) ==
    [date |-> date, openingTime |-> openingTime, closingTime |-> closingTime]

\* GET /api/disney/park-hours/<park>
ParkHoursBody(park) ==
    CASE park = "magicKingdom" ->
            [hasHours |-> TRUE,
             hours |-> <<Day(JStr("2025-07-04"), JStr("09:00"), JStr("22:00")),
                         Day(JStr("2025-07-05"), JStr("08:30"), JStr("00:00"))>>]
      [] park = "epcot" ->
            [hasHours |-> TRUE,
             hours |-> <<Day(JNull, JStr("12:00"), JStr("21:00"))>>]
      [] park = "hollywoodStudios" ->
            [hasHours |-> TRUE,
             hours |-> <<Day(JStr("2025-07-04"), JNull, JNull)>>]
      [] OTHER ->
            [hasHours |-> TRUE,
             hours |-> <<Day(JStr("2025-07-04"), JNum(800), JNum(2000))>>]

(***************************************************************************)
(* UnifiedPixiePalService: the wait-times path.                            *)
(***************************************************************************)
\* `a || b` on strings
OrElse(a, b) == IF a # "" THEN a ELSE b

normalizeAttraction(attraction, index, parkId) ==
    [id |-> parkId \o "-" \o OrElse(attraction.id, ToString(index)),
     name |-> OrElse(attraction.name, "Unknown Attraction"),
     land |-> OrElse(attraction.land, OrElse(attraction.area, "Unknown Area")),
     waitTime |-> IF attraction.waitTime.t = "number" THEN attraction.waitTime.n ELSE 0,
     isOpen |-> attraction.isOpen # "false",
     hasLightningLane |-> attraction.hasLightningLane \/ attraction.fastPassAvailable,
     park |-> parkId]

\* attractions.map((attraction, index) => ...): index counts from 0
normalizeAttractions(attractions, parkId) ==
    [i \in 1..Len(attractions) |-> normalizeAttraction(attractions[i], i - 1, parkId)]

\* getFallbackWaitTimes returning no record
getFallbackWaitTimes_NoRecord(parkId) ==
    [attractions |-> << >>, source |-> "fallback"]

getFallbackWaitTimes(parkId) ==
    [attractions |->
        <<[id |-> parkId \o "-fallback-1", name |-> "Check Disney World App",
           land |-> "", waitTime |-> 0, isOpen |-> TRUE,
           hasLightningLane |-> FALSE, park |-> parkId]>>,
     source |-> "fallback"]

\* getWaitTimes(parkId), given how the request to the proxy ends
getWaitTimes(parkId, outcome) ==
    IF ResponseOk(outcome)
    THEN LET data == IF outcome = "ok" THEN WaitTimesBody(parkId)
                     ELSE [hasAttractions |-> FALSE, attractions |-> << >>]
         IN  [attractions |->
                normalizeAttractions(
                    IF data.hasAttractions THEN data.attractions ELSE << >>, parkId),
              source |-> "disney_proxy"]
    ELSE getFallbackWaitTimes(parkId)

(***************************************************************************)
(* Pattern Responder: tryPatternMatch.  `st` is the render the handler     *)
(* closed over: the values of currentPark, allAttractions and allParkHours *)
(* it reads.  The result carries the returned string (matched = FALSE for  *)
(* null), the park handed to setCurrentPark (NoPark when it is not called) *)
(* and whether the call threw.                                             *)
(***************************************************************************)
UpperChar(c) ==
    IF \E i \in 1..Len(LowerAlphabet) : CharAt(LowerAlphabet, i) = c
    THEN CharAt(UpperAlphabet,
                CHOOSE i \in 1..Len(LowerAlphabet) : CharAt(LowerAlphabet, i) = c)
    ELSE c

\* w.charAt(0).toUpperCase() + w.slice(1)
Capitalize(w) ==
    IF Len(w) = 0 THEN "" ELSE UpperChar(CharAt(w, 1)) \o SubSeq(w, 2, Len(w))

\* rideName.split(' ').map(capitalize).join(' ')
TitleCase(rideName) ==
    LET words == split(rideName, " ")
    IN  join([i \in 1..Len(words) |-> Capitalize(words[i])], " ")

PatternResult(matched, text, park, threw) ==
    [matched |-> matched, text |-> text, setCurrentPark |-> park, threw |-> threw]

\* allAttractions.find(a => a.park === parkId && a.name.toLowerCase().includes(rideName)):
\* the index of the first such record, 0 when there is none
findAttraction(allAttractions, parkId, rideName) ==
    LET hits == {i \in 1..Len(allAttractions) :
                    /\ allAttractions[i].park = parkId
                    /\ Includes(toLowerCase(allAttractions[i].name), rideName)}
    IN  IF hits = {} THEN 0 ELSE CHOOSE i \in hits : \A j \in hits : i <= j

\* the entry of ATTRACTION_TO_PARK at which the for loop returns, 0 when it runs out
answeringRide(lowerInput, effectivePark, allAttractions) ==
    LET hits == {i \in 1..Len(ATTRACTION_TO_PARK) :
                    /\ Includes(lowerInput, ATTRACTION_TO_PARK[i][1])
                    /\ \/ findAttraction(allAttractions, ATTRACTION_TO_PARK[i][2],
                                         ATTRACTION_TO_PARK[i][1]) # 0
                       \/ ATTRACTION_TO_PARK[i][2] # effectivePark}
    IN  IF hits = {} THEN 0 ELSE CHOOSE i \in hits : \A j \in hits : i <= j

SwitchedNote(parkId, effectivePark) ==
    IF parkId # effectivePark THEN "(Switched parks for you!) " ELSE ""

\* lightningLaneNote without the test of the flag
lightningLaneNote_Always(attraction) == " Lightning Lane available!"

\* const lightningLane = attraction.hasLightningLane ? ' Lightning Lane available!' : ''
lightningLaneNote(attraction) ==
    IF attraction.hasLightningLane THEN " Lightning Lane available!" ELSE ""

\* the branch `if (attraction)` of the for loop
rideAnswer(lowerInput, attraction, parkId, effectivePark, currentPark) ==
    PatternResult(TRUE,
        IF Includes(lowerInput, "wait") \/ Includes(lowerInput, "how long")
           \/ Includes(lowerInput, "open") \/ ~Includes(lowerInput, "where")
        THEN "**" \o attraction.name \o "** currently has a **"
             \o ToString(attraction.waitTime) \o " minute wait**!"
             \o lightningLaneNote(attraction)
             \o "\n\nLocated at " \o PARK_NAMES[parkId] \o " in "
             \o OrElse(attraction.land, "the park") \o "! "
             \o SwitchedNote(parkId, effectivePark)
        ELSE "**" \o attraction.name \o "** is located at "
             \o PARK_NAMES[parkId] \o " in "
             \o OrElse(attraction.land, "the park") \o "! "
             \o SwitchedNote(parkId, effectivePark),
        IF parkId # currentPark THEN parkId ELSE NoPark,
        FALSE)

\* the else branch of `if (attraction)`, taken when parkId !== effectivePark
\* rideElsewhere without the call of setCurrentPark
rideElsewhere_NoSwitch(rideName, parkId) ==
    PatternResult(TRUE,
        TitleCase(rideName) \o " is located at " \o PARK_NAMES[parkId]
        \o "! I've switched you to the correct park.\n\n"
        \o "Try asking about it again for current wait times!",
        NoPark, FALSE)

rideElsewhere(rideName, parkId) ==
    PatternResult(TRUE,
        TitleCase(rideName) \o " is located at " \o PARK_NAMES[parkId]
        \o "! I've switched you to the correct park.\n\n"
        \o "Try asking about it again for current wait times!",
        parkId, FALSE)

\* the body of the for loop at the entry where it returns; k is what find returned
rideLoopReturn(lowerInput, rideName, parkId, effectivePark, st, k) ==
    IF k # 0
    THEN rideAnswer(lowerInput, st.allAttractions[k], parkId, effectivePark,
                    st.currentPark)
    ELSE rideElsewhere(rideName, parkId)

generalHours ==
    [magicKingdom |-> "9:00 AM - 10:00 PM",
     epcot |-> "9:00 AM - 9:00 PM",
     hollywoodStudios |-> "9:00 AM - 9:00 PM",
     animalKingdom |-> "8:00 AM - 8:00 PM",
     disneySprings |-> "10:00 AM - 11:00 PM",
     resorts |-> "24/7 for guests"]

\* allParkHours.find(p => p.park === effectivePark): its index, 0 when absent
findParkHours(allParkHours, effectivePark) ==
    LET hits == {i \in 1..Len(allParkHours) : allParkHours[i].park = effectivePark}
    IN  IF hits = {} THEN 0 ELSE CHOOSE i \in hits : \A j \in hits : i <= j

\* the response built from the cached days: a formatTime or formatDate that throws
\* makes tryPatternMatch throw
hoursLines(parkName, showToday, openTime, closeTime, showDate, date, showTomorrow, tomorrowOpen, tomorrowClose) ==
    IF \/ showToday /\ (openTime = Thrown \/ closeTime = Thrown)
       \/ showDate /\ date = Thrown
       \/ showTomorrow /\ (tomorrowOpen = Thrown \/ tomorrowClose = Thrown)
    THEN PatternResult(FALSE, "", NoPark, TRUE)
    ELSE PatternResult(TRUE,
            "**" \o parkName \o " Hours:**\n\n"
            \o (IF showToday
                THEN "**Today:** " \o Interpolate(openTime) \o " - "
                     \o Interpolate(closeTime) \o "\n"
                ELSE "")
            \o (IF showDate THEN "**Date:** " \o Interpolate(date) \o "\n" ELSE "")
            \o (IF showTomorrow
                THEN "**Tomorrow:** " \o Interpolate(tomorrowOpen) \o " - "
                     \o Interpolate(tomorrowClose) \o "\n"
                ELSE "")
            \o "\nThese are today's official operating hours! Have a magical day!",
            NoPark, FALSE)

\* the branch for cached hours: days is parkHoursData.hours.hours
cachedHoursAnswer(parkName, days) ==
    hoursLines(parkName,
               Truthy(days[1].openingTime) /\ Truthy(days[1].closingTime),
               formatTime(days[1].openingTime),
               formatTime(days[1].closingTime),
               Truthy(days[1].date),
               formatDate(days[1].date),
               Len(days) > 1,
               IF Len(days) > 1 THEN formatTime(days[2].openingTime) ELSE JNull,
               IF Len(days) > 1 THEN formatTime(days[2].closingTime) ELSE JNull)

\* the days of the entry that allParkHours.find returned at index k, << >> when the
\* condition on parkHoursData fails
daysOf(allParkHours, k) ==
    IF k # 0 /\ allParkHours[k].hours.hasHours THEN allParkHours[k].hours.hours
    ELSE << >>

\* the cached hours when there are days, else the typical hours of generalHours
hoursOfDays(effectivePark, days) ==
    IF Len(days) > 0
    THEN cachedHoursAnswer(PARK_NAMES[effectivePark], days)
    ELSE PatternResult(TRUE,
            "**" \o PARK_NAMES[effectivePark] \o " Hours:**\n\n**Typical:** "
            \o generalHours[effectivePark]
            \o "\n\nCheck the Disney World app for today's exact hours!",
            NoPark, FALSE)

\* the branch `analysis.isTimeQuery && !analysis.isSpecificLocationTime`
hoursAnswer(effectivePark, st) ==
    hoursOfDays(effectivePark,
                daysOf(st.allParkHours, findParkHours(st.allParkHours, effectivePark)))

DisneySpringsHoursText ==
    "**Disney Springs Hours:**\n\n**Typical:** 10:00 AM - 11:00 PM\n**Status:** Open daily\n\nIndividual shop and restaurant hours may vary. Check the Disney World app for specific store hours!"

DisneySpringsInfoText ==
    "**Disney Springs** is Disney's shopping and dining district! I don't have live data for Springs yet, but it's open daily from 10 AM to 11 PM. Check the Disney World app for specific store and restaurant information!"

ResortsInfoText ==
    "**Disney Resort Hotels** are available 24/7 for guests! I don't have specific resort data yet, but you can check the Disney World app or call your resort directly for amenities, dining reservations, and transportation schedules!"

\* effectiveParkOf reading the current park only
effectiveParkOf_CurrentOnly(contextPark, currentPark) == currentPark

\* const effectivePark = contextPark || currentPark
effectiveParkOf(contextPark, currentPark) ==
    IF contextPark # NoPark THEN contextPark ELSE currentPark

\* the rules of tryPatternMatch in order; r is the entry at which the for loop
\* returns, 0 when it runs out
patternRules(lowerInput, effectivePark, analysis, st, r) ==
    IF r # 0
    THEN rideLoopReturn(lowerInput, ATTRACTION_TO_PARK[r][1], ATTRACTION_TO_PARK[r][2],
                        effectivePark, st,
                        findAttraction(st.allAttractions, ATTRACTION_TO_PARK[r][2],
                                       ATTRACTION_TO_PARK[r][1]))
    ELSE IF effectivePark = "disneySprings"
    THEN PatternResult(TRUE,
            IF analysis.isTimeQuery THEN DisneySpringsHoursText
            ELSE DisneySpringsInfoText,
            NoPark, FALSE)
    ELSE IF effectivePark = "resorts"
    THEN PatternResult(TRUE, ResortsInfoText, NoPark, FALSE)
    ELSE IF analysis.isTimeQuery /\ ~analysis.isSpecificLocationTime
    THEN hoursAnswer(effectivePark, st)
    ELSE PatternResult(FALSE, "", NoPark, FALSE)

\* useState: the recent inputs, which processUserInput keeps and tryPatternMatch does
\* not read
VARIABLES conversationContext

\* patternOf reading the recent inputs as well: a question that repeats the one
\* before it is left to the completion provider
patternOf_OncePerQuestion(lowerInput, effectivePark, analysis, st) ==
    IF /\ Len(conversationContext) > 0
       /\ toLowerCase(conversationContext[Len(conversationContext)]) = lowerInput
    THEN PatternResult(FALSE, "", NoPark, FALSE)
    ELSE patternRules(lowerInput, effectivePark, analysis, st,
                      answeringRide(lowerInput, effectivePark, st.allAttractions))

\* tryPatternMatch after its constants lowerInput, effectivePark and analysis
patternOf(lowerInput, effectivePark, analysis, st) ==
    patternRules(lowerInput, effectivePark, analysis, st,
                 answeringRide(lowerInput, effectivePark, st.allAttractions))

\* tryPatternMatch(input, contextPark), reading the render st
tryPatternMatch(input, contextPark, st) ==
    patternOf(toLowerCase(input), effectiveParkOf(contextPark, st.currentPark),
              analyzeQuery(input), st)

(***************************************************************************)
(* AI Fallback Composer: the try/catch of processUserInput.                *)
(***************************************************************************)
\* array.slice(0, n)
Take(seq, n) == SubSeq(seq, 1, IF Len(seq) < n THEN Len(seq) ELSE n)

\* array.slice(-n)
LastN(seq, n) == SubSeq(seq, IF Len(seq) > n THEN Len(seq) - n + 1 ELSE 1, Len(seq))

\* allAttractions.filter(a => a.park === targetPark), also for character meets
OfPark(records, targetPark) ==
    LET InPark(r) == r.park = targetPark
    IN  SelectSeq(records, InPark)

\* allEntertainment.find(e => e.park === targetPark)?.entertainment || []
EntertainmentOf(allEntertainment, targetPark) ==
    LET hits == {i \in 1..Len(allEntertainment) : allEntertainment[i].park = targetPark}
    IN  IF hits = {} THEN << >>
        ELSE allEntertainment[CHOOSE i \in hits : \A j \in hits : i <= j].entertainment

\* how the request to the completion provider ends: fetch rejects (network), or a
\* response with a status and a body
CompletionResult(network, ok, validJson, hasChoices, choices) ==
    [network |-> network, ok |-> ok, validJson |-> validJson,
     hasChoices |-> hasChoices, choices |-> choices]

CompletionText == "Space Mountain is in Tomorrowland with a 45 minute wait."

CompletionOutcomes ==
    {CompletionResult(TRUE, FALSE, FALSE, FALSE, << >>),
     CompletionResult(FALSE, FALSE, TRUE, FALSE, << >>),
     CompletionResult(FALSE, TRUE, FALSE, FALSE, << >>),
     CompletionResult(FALSE, TRUE, TRUE, FALSE, << >>),
     CompletionResult(FALSE, TRUE, TRUE, TRUE, << >>),
     CompletionResult(FALSE, TRUE, TRUE, TRUE, <<[hasMessage |-> FALSE, content |-> JNull]>>),
     CompletionResult(FALSE, TRUE, TRUE, TRUE, <<[hasMessage |-> TRUE, content |-> JNull]>>),
     CompletionResult(FALSE, TRUE, TRUE, TRUE, <<[hasMessage |-> TRUE, content |-> JStr("")]>>),
     CompletionResult(FALSE, TRUE, TRUE, TRUE,
                      <<[hasMessage |-> TRUE, content |-> JStr(CompletionText)]>>),
     CompletionResult(FALSE, TRUE, TRUE, TRUE,
                      <<[hasMessage |-> TRUE, content |-> JNum(42)]>>)}

PlaceholderText == "I had a magical moment processing that!"

\* how a stage of processUserInput ends: it throws, or returns a value; text is the
\* value as a Text element shows it, type its JavaScript type
StageResult(threw, text, stage) ==
    [threw |-> threw, text |-> text, stage |-> stage, type |-> "string"]

\* the statements of the try block after fetch settles: threw = TRUE when one of
\* them throws (a rejected fetch, !response.ok, response.json(), aiData.choices[0])
tryCompletion(outcome) ==
    IF outcome.network \/ ~outcome.ok \/ ~outcome.validJson \/ ~outcome.hasChoices
    THEN StageResult(TRUE, "", "ai")
    ELSE IF Len(outcome.choices) > 0 /\ outcome.choices[1].hasMessage
            /\ Truthy(outcome.choices[1].content)
         THEN [StageResult(FALSE, Interpolate(outcome.choices[1].content), "ai")
                  EXCEPT !.type = outcome.choices[1].content.t]
         ELSE StageResult(FALSE, PlaceholderText, "ai")

TimesOr(record, other) ==
    IF join(record.times, ", ") # "" THEN join(record.times, ", ") ELSE other

RECURSIVE ShowLines(_)
ShowLines(shows) ==
    IF Len(shows) = 0 THEN ""
    ELSE "**" \o shows[1].name \o "** - " \o TimesOr(shows[1], "Check times") \o "\n"
         \o ShowLines(Tail(shows))

RECURSIVE MeetLines(_)
MeetLines(meets) ==
    IF Len(meets) = 0 THEN ""
    ELSE "**" \o OrElse(join(meets[1].characters, ", "),
                        OrElse(meets[1].character, "Character"))
         \o "** at " \o meets[1].location \o " ("
         \o OrElse(join(meets[1].times, ", "), OrElse(meets[1].time, "Check times"))
         \o ")\n" \o MeetLines(Tail(meets))

\* the lightning-bolt emoji that marks Lightning Lane in this list is written " LL"
AttractionLine(a) ==
    a.name \o " - " \o ToString(a.waitTime) \o " min"
    \o (IF a.hasLightningLane THEN " LL" ELSE "")

\* the catch block with the attraction test made first
fallbackResponse_AttractionsFirst(analysis, targetPark, st) ==
    LET currentParkAttractions == OfPark(st.allAttractions, targetPark)
        currentParkCharacters == OfPark(st.allCharacterMeets, targetPark)
        currentParkEntertainment == EntertainmentOf(st.allEntertainment, targetPark)
        NotCharacterMeet(show) == ~Includes(show.type, "character-meet")
    IN  IF analysis.isAttractionQuery /\ Len(currentParkAttractions) > 0
        THEN "**" \o PARK_NAMES[targetPark] \o " Top Attractions:**\n\n"
             \o join([i \in 1..Len(Take(currentParkAttractions, 5)) |->
                        AttractionLine(currentParkAttractions[i])], "\n")
             \o "\n\nLive wait times updated regularly!"
        ELSE IF analysis.isEntertainmentQuery /\ Len(currentParkEntertainment) > 0
        THEN "**Entertainment at " \o PARK_NAMES[targetPark] \o ":**\n\n"
             \o ShowLines(Take(SelectSeq(currentParkEntertainment, NotCharacterMeet), 5))
             \o "\nEnhanced entertainment data! Check Disney app for updates!"
        ELSE IF analysis.isCharacterQuery /\ Len(currentParkCharacters) > 0
        THEN "**Character Meets at " \o PARK_NAMES[targetPark] \o ":**\n\n"
             \o MeetLines(Take(currentParkCharacters, 3))
             \o "\nCharacter times can change - arrive early!"
        ELSE "I'm having a magical moment with the AI! But I have enhanced data including "
             \o ToString(Len(currentParkAttractions)) \o " attractions, "
             \o ToString(Len(currentParkEntertainment)) \o " entertainment shows, and "
             \o ToString(Len(currentParkCharacters)) \o " character meets at "
             \o PARK_NAMES[targetPark]
             \o ". Try asking \"show me all rides\", \"what shows are happening\", or \"character meets\"!"

\* the catch block
fallbackResponse(analysis, targetPark, st) ==
    LET currentParkAttractions == OfPark(st.allAttractions, targetPark)
        currentParkCharacters == OfPark(st.allCharacterMeets, targetPark)
        currentParkEntertainment == EntertainmentOf(st.allEntertainment, targetPark)
        NotCharacterMeet(show) == ~Includes(show.type, "character-meet")
    IN  IF analysis.isEntertainmentQuery /\ Len(currentParkEntertainment) > 0
        THEN "**Entertainment at " \o PARK_NAMES[targetPark] \o ":**\n\n"
             \o ShowLines(Take(SelectSeq(currentParkEntertainment, NotCharacterMeet), 5))
             \o "\nEnhanced entertainment data! Check Disney app for updates!"
        ELSE IF analysis.isCharacterQuery /\ Len(currentParkCharacters) > 0
        THEN "**Character Meets at " \o PARK_NAMES[targetPark] \o ":**\n\n"
             \o MeetLines(Take(currentParkCharacters, 3))
             \o "\nCharacter times can change - arrive early!"
        ELSE IF analysis.isAttractionQuery /\ Len(currentParkAttractions) > 0
        THEN "**" \o PARK_NAMES[targetPark] \o " Top Attractions:**\n\n"
             \o join([i \in 1..Len(Take(currentParkAttractions, 5)) |->
                        AttractionLine(currentParkAttractions[i])], "\n")
             \o "\n\nLive wait times updated regularly!"
        ELSE "I'm having a magical moment with the AI! But I have enhanced data including "
             \o ToString(Len(currentParkAttractions)) \o " attractions, "
             \o ToString(Len(currentParkEntertainment)) \o " entertainment shows, and "
             \o ToString(Len(currentParkCharacters)) \o " character meets at "
             \o PARK_NAMES[targetPark]
             \o ". Try asking \"show me all rides\", \"what shows are happening\", or \"character meets\"!"

\* what the try/catch returns to the caller of processUserInput once fetch settles
composeAnswer(input, targetPark, st, outcome) ==
    LET attempt == tryCompletion(outcome)
    IN  IF attempt.threw
        THEN StageResult(FALSE, fallbackResponse(analyzeQuery(input), targetPark, st),
                         "fallback")
        ELSE attempt

(***************************************************************************)
(* processUserInput up to its first await: the statements that run inside  *)
(* the submit event.  fetch = TRUE when it reaches the completion request. *)
(***************************************************************************)
DisneySpringsAiText ==
    "**Disney Springs** is Disney's shopping and dining district!\n\n**What's there:** World-class shopping, amazing restaurants, live entertainment\n**Hours:** 10:00 AM - 11:00 PM daily\n**Parking:** Free parking available\n\nCheck the Disney World app for specific store and restaurant hours!"

ResortsAiText ==
    "**Disney Resort Hotels** offer magical accommodations!\n\n**Deluxe Resorts:** Grand Floridian, Polynesian, Contemporary\n**Moderate Resorts:** Port Orleans, Caribbean Beach, Coronado Springs\n**Value Resorts:** All-Star Movies/Music/Sports, Pop Century, Art of Animation\n\nEach resort has unique theming, dining, and transportation to the parks!"

\* reachesCompletion without the return on a pattern answer
reachesCompletion_NoPatternReturn(patternResult, targetPark) ==
    /\ ~patternResult.threw
    /\ targetPark \notin {"disneySprings", "resorts"}

\* whether control reaches the try block: the pattern answer and the district
\* answers return before it
reachesCompletion(patternResult, targetPark) ==
    /\ ~patternResult.threw
    /\ ~(patternResult.matched /\ patternResult.text # "")
    /\ targetPark \notin {"disneySprings", "resorts"}

\* what processUserInput has done when it returns or reaches the try block
settleOrFetch(targetPark, patternResult) ==
    [targetPark |-> targetPark,
     pattern |-> patternResult,
     \* the setCurrentPark calls in order: line 509, then the one of tryPatternMatch
     currentPark |-> IF patternResult.setCurrentPark # NoPark
                     THEN patternResult.setCurrentPark
                     ELSE targetPark,
     fetch |-> reachesCompletion(patternResult, targetPark),
     result |->
        IF patternResult.threw THEN StageResult(TRUE, "", "pattern")
        ELSE IF patternResult.matched /\ patternResult.text # ""
        THEN StageResult(FALSE, patternResult.text, "pattern")
        ELSE IF targetPark = "disneySprings"
        THEN StageResult(FALSE, DisneySpringsAiText, "district")
        ELSE IF targetPark = "resorts"
        THEN StageResult(FALSE, ResortsAiText, "district")
        ELSE StageResult(FALSE, "", "ai")]

\* targetParkOf taking the selected park whatever the analysis found
targetParkOf_CurrentOnly(analysis, currentPark) == currentPark

\* let targetPark = analysis.targetPark || currentPark
targetParkOf(analysis, currentPark) ==
    IF analysis.targetPark # NoPark THEN analysis.targetPark ELSE currentPark

\* processUserInput once targetPark is known
processTarget(input, targetPark, st) ==
    settleOrFetch(targetPark, tryPatternMatch(input, targetPark, st))

\* processUserInput(input) up to its first await, reading the render st
processUserInput(input, st) ==
    processTarget(input, targetParkOf(analyzeQuery(input), st.currentPark), st)

(***************************************************************************)
(* State of the PixiePalChat component.                                    *)
(***************************************************************************)
VARIABLES
    currentPark,          \* useState: the selected park
    messages,             \* useState: the chat history
    inputText,            \* useState: the text field
    isLoading,            \* useState: the busy flag
    allAttractions,       \* useState: cached attractions of all parks
    allEntertainment,     \* useState: cached entertainment, one entry per park
    allParkHours,         \* useState: cached park hours, one entry per park
    allCharacterMeets,    \* useState: cached character meets of all parks
    proxy,                \* environment: how each endpoint of the data proxy answers
    load,                 \* the activation of loadAttractions
    resolution,           \* the activation of sendMessage / processUserInput
    outstanding,          \* number of processUserInput promises not yet settled
    clock,                \* Date.now() / Math.random(): source of fresh message ids
    lastEvent,            \* "submit" when the handler that ran last is sendMessage
    feedbackLog,          \* AsyncStorage: the array stored under 'pixie_pal_feedback'
    feedbackCalls,        \* the activations of handleFeedback, in the order of the calls
    voice,                \* VoiceService: the activations of processVoiceInput
    formatted,            \* the last call of formatTime: its argument and its result
    monitor,              \* PixiePalNotificationService: flags, timers, activations
    recorder              \* VoiceInput: the button, its state and the recordings

vars ==
    <<currentPark, messages, inputText, isLoading, allAttractions, allEntertainment,
      allParkHours, allCharacterMeets, conversationContext, proxy, load, resolution,
      outstanding, clock, lastEvent, feedbackLog, feedbackCalls, voice, formatted,
      monitor, recorder>>

\* what the chat handlers and the data refresh leave alone
sideVars == <<feedbackLog, feedbackCalls, voice, formatted, monitor, recorder>>

cacheVars == <<allAttractions, allEntertainment, allParkHours, allCharacterMeets>>

NoFeedback == [type |-> "none", comment |-> ""]

Message(id, text, isUser, showFeedback) ==
    [id |-> id, text |-> text, isUser |-> isUser, showFeedback |-> showFeedback,
     feedback |-> NoFeedback]

WelcomeText ==
    "Welcome to the magic! I'm Pixie Pal!\n\nI know EVERYTHING about Disney World:\nLive wait times\nShow schedules  \nDining reservations\nLightning Lane tips\n\nReady to make some Disney magic? What's your first question!"

ApologyText ==
    "Something magical went wrong! Try asking me about wait times or park hours!"

\* the parks array of loadAttractions
LoadParks ==
    <<[id |-> "magicKingdom", name |-> "magic-kingdom"],
      [id |-> "epcot", name |-> "epcot"],
      [id |-> "hollywoodStudios", name |-> "hollywood-studios"],
      [id |-> "animalKingdom", name |-> "animal-kingdom"]>>

\* the render a handler closes over
Render ==
    [currentPark |-> currentPark, allAttractions |-> allAttractions,
     allEntertainment |-> allEntertainment, allParkHours |-> allParkHours,
     allCharacterMeets |-> allCharacterMeets]

\* the state after mount had loadAttractions no setIsLoading(true)
InitState_NotBusy(world) ==
    /\ currentPark = "magicKingdom"
    /\ messages = <<Message(<<"welcome", 0>>, WelcomeText, FALSE, TRUE)>>
    /\ inputText = ""
    /\ isLoading = FALSE
    /\ allAttractions = << >>
    /\ allEntertainment = << >>
    /\ allParkHours = << >>
    /\ allCharacterMeets = << >>
    /\ conversationContext = << >>
    /\ proxy = world
    /\ load = [pc |-> "fetching", index |-> 1, allData |-> << >>,
               allEntertainment |-> << >>, allParkHours |-> << >>,
               allCharacterMeets |-> << >>]
    /\ resolution = [pc |-> "idle", input |-> "", targetPark |-> NoPark,
                     st |-> [currentPark |-> "magicKingdom", allAttractions |-> << >>,
                             allEntertainment |-> << >>, allParkHours |-> << >>,
                             allCharacterMeets |-> << >>],
                     pattern |-> PatternResult(FALSE, "", NoPark, FALSE),
                     repeats |-> FALSE,
                     result |-> StageResult(FALSE, "", "none"), requests |-> 0]
    /\ outstanding = 0
    /\ clock = 1
    /\ lastEvent = "other"
    /\ feedbackLog = << >>
    /\ feedbackCalls = << >>
    /\ voice = [pc |-> "idle", audioUri |-> "", requests |-> 0, callbacks |-> << >>,
                settled |-> << >>]
    /\ formatted = [called |-> FALSE, militaryTime |-> JNull, result |-> JNull]
    \* the constructor of PixiePalNotificationService
    /\ monitor = [isMonitoring |-> FALSE, monitoringInterval |-> 0, timers |-> {},
                  starts |-> << >>, stops |-> 0]
    \* VoiceInput after its first render
    /\ recorder = [pressed |-> FALSE, isRecording |-> FALSE, recording |-> 0,
                   starting |-> {}, stopping |-> {}, active |-> {}, presses |-> 0,
                   delivered |-> << >>]

\* the state after the mount effect: loadAttractions() has run up to its first
\* await and addWelcomeMessage() has set the welcome message
InitState(world) ==
    /\ currentPark = "magicKingdom"
    /\ messages = <<Message(<<"welcome", 0>>, WelcomeText, FALSE, TRUE)>>
    /\ inputText = ""
    /\ isLoading = TRUE
    /\ allAttractions = << >>
    /\ allEntertainment = << >>
    /\ allParkHours = << >>
    /\ allCharacterMeets = << >>
    /\ conversationContext = << >>
    /\ proxy = world
    /\ load = [pc |-> "fetching", index |-> 1, allData |-> << >>,
               allEntertainment |-> << >>, allParkHours |-> << >>,
               allCharacterMeets |-> << >>]
    /\ resolution = [pc |-> "idle", input |-> "", targetPark |-> NoPark,
                     st |-> [currentPark |-> "magicKingdom", allAttractions |-> << >>,
                             allEntertainment |-> << >>, allParkHours |-> << >>,
                             allCharacterMeets |-> << >>],
                     pattern |-> PatternResult(FALSE, "", NoPark, FALSE),
                     repeats |-> FALSE,
                     result |-> StageResult(FALSE, "", "none"), requests |-> 0]
    /\ outstanding = 0
    /\ clock = 1
    /\ lastEvent = "other"
    /\ feedbackLog = << >>
    /\ feedbackCalls = << >>
    /\ voice = [pc |-> "idle", audioUri |-> "", requests |-> 0, callbacks |-> << >>,
                settled |-> << >>]
    /\ formatted = [called |-> FALSE, militaryTime |-> JNull, result |-> JNull]
    \* the constructor of PixiePalNotificationService
    /\ monitor = [isMonitoring |-> FALSE, monitoringInterval |-> 0, timers |-> {},
                  starts |-> << >>, stops |-> 0]
    \* VoiceInput after its first render
    /\ recorder = [pressed |-> FALSE, isRecording |-> FALSE, recording |-> 0,
                   starting |-> {}, stopping |-> {}, active |-> {}, presses |-> 0,
                   delivered |-> << >>]

(***************************************************************************)
(* loadAttractions: one pass of its for loop per step (the four requests   *)
(* for one park and the pushes that follow them); the pass for the last    *)
(* park runs on into the setters and the finally block.                    *)
(***************************************************************************)
\* data.attractions.map(...) of the loop body
cacheAttraction(attraction, park) ==
    [id |-> park.name \o "-" \o attraction.id,
     name |-> attraction.name,
     waitTime |-> attraction.waitTime,
     isOpen |-> attraction.isOpen \/ TRUE,
     hasLightningLane |-> attraction.hasLightningLane,
     park |-> park.id,
     land |-> attraction.land]

cacheAttractions(attractions, park) ==
    [i \in 1..Len(attractions) |-> cacheAttraction(attractions[i], park)]

\* characterMeetData.characterMeets.map(meet => ({...meet, park: park.id}))
cacheMeets(meets, park) ==
    [i \in 1..Len(meets) |->
        [characters |-> meets[i].characters, character |-> meets[i].character,
         location |-> meets[i].location, times |-> meets[i].times,
         time |-> meets[i].time, park |-> park.id]]

\* the accumulators after the loop body has run for `park`
loadPark(acc, park, answers) ==
    LET data == getWaitTimes(park.id, answers["waitTimes"])
        entertainmentOk == ResponseOk(answers["entertainment"])
        entertainmentData ==
            IF answers["entertainment"] = "ok" THEN EntertainmentBody(park.id)
            ELSE [hasEntertainment |-> FALSE, entertainment |-> << >>]
        characterOk == ResponseOk(answers["characterMeets"])
        characterMeetData ==
            IF answers["characterMeets"] = "ok" THEN CharacterMeetsBody(park.id)
            ELSE [hasCharacterMeets |-> FALSE, characterMeets |-> << >>]
        hoursOk == ResponseOk(answers["parkHours"])
        parkHoursData ==
            IF answers["parkHours"] = "ok" THEN ParkHoursBody(park.id)
            ELSE [hasHours |-> FALSE, hours |-> << >>]
    IN  [allData |->
            IF Len(data.attractions) > 0
            THEN acc.allData \o cacheAttractions(data.attractions, park)
            ELSE acc.allData,
         allEntertainment |->
            IF entertainmentOk /\ entertainmentData.hasEntertainment
            THEN Append(acc.allEntertainment,
                        [park |-> park.id,
                         entertainment |-> entertainmentData.entertainment])
            ELSE acc.allEntertainment,
         allCharacterMeets |->
            IF characterOk /\ characterMeetData.hasCharacterMeets
            THEN acc.allCharacterMeets \o cacheMeets(characterMeetData.characterMeets, park)
            ELSE acc.allCharacterMeets,
         allParkHours |->
            IF hoursOk
            THEN Append(acc.allParkHours, [park |-> park.id, hours |-> parkHoursData])
            ELSE acc.allParkHours]

\* loadAttractions calling setAllAttractions only
loadAttractions_AttractionsOnly ==
    /\ load.pc = "fetching"
    /\ \E acc \in {loadPark(load, LoadParks[load.index],
                            proxy[LoadParks[load.index].id])} :
           IF load.index < Len(LoadParks)
           THEN /\ load' = [pc |-> "fetching", index |-> load.index + 1,
                            allData |-> acc.allData,
                            allEntertainment |-> acc.allEntertainment,
                            allParkHours |-> acc.allParkHours,
                            allCharacterMeets |-> acc.allCharacterMeets]
                /\ UNCHANGED <<isLoading, cacheVars>>
           ELSE /\ load' = [pc |-> "done", index |-> load.index,
                            allData |-> acc.allData,
                            allEntertainment |-> acc.allEntertainment,
                            allParkHours |-> acc.allParkHours,
                            allCharacterMeets |-> acc.allCharacterMeets]
                /\ IF Len(acc.allData) > 0
                   THEN /\ allAttractions' = acc.allData
                        /\ UNCHANGED <<allEntertainment, allParkHours,
                                       allCharacterMeets>>
                   ELSE UNCHANGED cacheVars
                /\ isLoading' = FALSE
    /\ lastEvent' = "other"
    /\ UNCHANGED <<currentPark, messages, inputText, conversationContext, proxy,
                   resolution, outstanding, clock, sideVars>>

loadAttractions ==
    /\ load.pc = "fetching"
    /\ \E acc \in {loadPark(load, LoadParks[load.index],
                            proxy[LoadParks[load.index].id])} :
           IF load.index < Len(LoadParks)
           THEN /\ load' = [pc |-> "fetching", index |-> load.index + 1,
                            allData |-> acc.allData,
                            allEntertainment |-> acc.allEntertainment,
                            allParkHours |-> acc.allParkHours,
                            allCharacterMeets |-> acc.allCharacterMeets]
                /\ UNCHANGED <<isLoading, cacheVars>>
           ELSE /\ load' = [pc |-> "done", index |-> load.index,
                            allData |-> acc.allData,
                            allEntertainment |-> acc.allEntertainment,
                            allParkHours |-> acc.allParkHours,
                            allCharacterMeets |-> acc.allCharacterMeets]
                /\ IF Len(acc.allData) > 0
                   THEN /\ allAttractions' = acc.allData
                        /\ allEntertainment' = acc.allEntertainment
                        /\ allParkHours' = acc.allParkHours
                        /\ allCharacterMeets' = acc.allCharacterMeets
                   ELSE UNCHANGED cacheVars
                /\ isLoading' = FALSE
    /\ lastEvent' = "other"
    /\ UNCHANGED <<currentPark, messages, inputText, conversationContext, proxy,
                   resolution, outstanding, clock, sideVars>>

(***************************************************************************)
(* The handlers of the chat screen.  A handler reads the state of the      *)
(* latest render: React commits the updates of one event before it         *)
(* dispatches the next.                                                    *)
(***************************************************************************)
\* onChangeText={setInputText}
setInputText(text) ==
    /\ inputText' = text
    /\ lastEvent' = "other"
    /\ UNCHANGED <<currentPark, messages, isLoading, cacheVars, conversationContext,
                   proxy, load, resolution, outstanding, clock, sideVars>>

\* the park selector's onPress
selectPark(parkId) ==
    /\ currentPark' = parkId
    /\ lastEvent' = "other"
    /\ UNCHANGED <<messages, inputText, isLoading, cacheVars, conversationContext,
                   proxy, load, resolution, outstanding, clock, sideVars>>

\* textToSend without the trim of the text field
textToSend_Untrimmed(messageText) == OrElse(messageText, inputText)

\* messageText || inputText.trim(); an absent argument is ""
textToSend(messageText) == OrElse(messageText, trim(inputText))

\* pushContext without the slice: the buffer keeps every input
pushContext_Unbounded(prev, input) == Append(prev, input)

\* setConversationContext(prev => [...prev.slice(-4), input])
pushContext(prev, input) == Append(LastN(prev, 4), input)

\* sendMessageRejects without the test of the busy flag
sendMessageRejects_IgnoresBusy(messageText) ==
    textToSend(messageText) = ""

\* the two early returns of sendMessage
sendMessageRejects(messageText) ==
    textToSend(messageText) = "" \/ isLoading

\* sendMessage calling processUserInput without awaiting it: the handler runs on to
\* its finally block and nothing is chained to the promise
sendMessage_NoAwait(messageText) ==
    /\ lastEvent' = "submit"
    /\ UNCHANGED sideVars
    /\ IF sendMessageRejects(messageText)
       THEN UNCHANGED <<currentPark, messages, inputText, isLoading, cacheVars,
                        conversationContext, proxy, load, resolution, outstanding,
                        clock>>
       ELSE \E input \in {textToSend(messageText)} :
            \E run \in {processUserInput(input, Render)} :
                /\ messages' = Append(messages, Message(<<"user", clock>>, input, TRUE, FALSE))
                /\ clock' = clock + 1
                /\ inputText' = ""
                /\ isLoading' = FALSE
                /\ conversationContext' = pushContext(conversationContext, input)
                /\ currentPark' = run.currentPark
                /\ resolution' =
                     [pc |-> "idle",
                      input |-> input,
                      targetPark |-> run.targetPark,
                      st |-> Render,
                      pattern |-> run.pattern,
                      \* history: tryPatternMatch is called with the arguments and
                      \* the render of the call before it
                      repeats |-> /\ resolution.input = input
                                  /\ resolution.targetPark = run.targetPark
                                  /\ resolution.st = Render,
                      result |-> run.result,
                      requests |-> IF run.fetch THEN 1 ELSE 0]
                /\ outstanding' = outstanding
                /\ UNCHANGED <<cacheVars, proxy, load>>

\* sendMessage(messageText) up to `await processUserInput(...)`, with the part of
\* processUserInput that runs before its first await
sendMessage(messageText) ==
    /\ lastEvent' = "submit"
    /\ UNCHANGED sideVars
    /\ IF sendMessageRejects(messageText)
       THEN UNCHANGED <<currentPark, messages, inputText, isLoading, cacheVars,
                        conversationContext, proxy, load, resolution, outstanding,
                        clock>>
       ELSE \E input \in {textToSend(messageText)} :
            \E run \in {processUserInput(input, Render)} :
                /\ messages' = Append(messages, Message(<<"user", clock>>, input, TRUE, FALSE))
                /\ clock' = clock + 1
                /\ inputText' = ""
                /\ isLoading' = TRUE
                /\ conversationContext' = pushContext(conversationContext, input)
                /\ currentPark' = run.currentPark
                /\ resolution' =
                     [pc |-> IF run.fetch THEN "fetching" ELSE "settled",
                      input |-> input,
                      targetPark |-> run.targetPark,
                      st |-> Render,
                      pattern |-> run.pattern,
                      \* history: tryPatternMatch is called with the arguments and
                      \* the render of the call before it
                      repeats |-> /\ resolution.input = input
                                  /\ resolution.targetPark = run.targetPark
                                  /\ resolution.st = Render,
                      result |-> run.result,
                      requests |-> IF run.fetch THEN 1 ELSE 0]
                /\ outstanding' = outstanding + 1
                /\ UNCHANGED <<cacheVars, proxy, load>>

\* receiveCompletion putting the current park back to the one of the render
receiveCompletion_RestoresPark(outcome) ==
    /\ resolution.pc = "fetching"
    /\ resolution' =
         [resolution EXCEPT
            !.pc = "settled",
            !.result = composeAnswer(resolution.input, resolution.targetPark,
                                     resolution.st, outcome)]
    /\ currentPark' = resolution.st.currentPark
    /\ lastEvent' = "other"
    /\ UNCHANGED <<messages, inputText, isLoading, cacheVars,
                   conversationContext, proxy, load, outstanding, clock, sideVars>>

\* the completion request settles and processUserInput runs to its return
receiveCompletion(outcome) ==
    /\ resolution.pc = "fetching"
    /\ resolution' =
         [resolution EXCEPT
            !.pc = "settled",
            !.result = composeAnswer(resolution.input, resolution.targetPark,
                                     resolution.st, outcome)]
    /\ lastEvent' = "other"
    /\ UNCHANGED <<currentPark, messages, inputText, isLoading, cacheVars,
                   conversationContext, proxy, load, outstanding, clock, sideVars>>

\* replyMessages without the catch block: a rejection appends nothing
replyMessages_NoCatch(result, now) ==
    IF result.threw
    THEN << >>
    ELSE <<Message(<<"ai", now>>, result.text, FALSE, TRUE)>>

\* the messages sendMessage appends once processUserInput has settled: aiMessage in
\* the try block, errorMessage in the catch block
replyMessages(result, now) ==
    IF result.threw
    THEN <<Message(<<"error", now>>, ApologyText, FALSE, TRUE)>>
    ELSE <<Message(<<"ai", now>>, result.text, FALSE, TRUE)>>

\* sendMessageResume without the finally block: the busy flag stays set
sendMessageResume_NoFinally ==
    /\ resolution.pc = "settled"
    /\ messages' = messages \o replyMessages(resolution.result, clock)
    /\ clock' = clock + 1
    /\ resolution' = [resolution EXCEPT !.pc = "idle"]
    /\ outstanding' = outstanding - 1
    /\ lastEvent' = "other"
    /\ UNCHANGED <<currentPark, inputText, isLoading, cacheVars, conversationContext,
                   proxy, load, sideVars>>

\* sendMessage after `await processUserInput(...)`: try, catch and finally
sendMessageResume ==
    /\ resolution.pc = "settled"
    /\ messages' = messages \o replyMessages(resolution.result, clock)
    /\ clock' = clock + 1
    /\ isLoading' = FALSE
    /\ resolution' = [resolution EXCEPT !.pc = "idle"]
    /\ outstanding' = outstanding - 1
    /\ lastEvent' = "other"
    /\ UNCHANGED <<currentPark, inputText, cacheVars, conversationContext, proxy, load,
                   sideVars>>

(***************************************************************************)
(* handleFeedback: the in-memory update runs in the press event; the       *)
(* stored log is read and written back in two awaited AsyncStorage calls.  *)
(***************************************************************************)
\* attachFeedback without the test of the message id
attachFeedback_EveryMessage(prev, messageId, feedback) ==
    [i \in 1..Len(prev) |-> [prev[i] EXCEPT !.feedback = feedback]]

\* prev.map(msg => msg.id === messageId ? { ...msg, feedback } : msg)
attachFeedback(prev, messageId, feedback) ==
    [i \in 1..Len(prev) |->
        IF prev[i].id = messageId
        THEN [prev[i] EXCEPT !.feedback = feedback]
        ELSE prev[i]]

\* the value of an absent optional: the comment the buttons do not pass, the text of
\* a message that find does not find
Undefined == ""

\* messages.find(m => m.id === messageId)?.text?.substring(0, 100)
messageTextOf(msgs, messageId) ==
    LET hits == {i \in 1..Len(msgs) : msgs[i].id = messageId}
    IN  IF hits = {} THEN Undefined
        ELSE Take(msgs[CHOOSE i \in hits : \A j \in hits : i <= j].text, 100)

\* the feedbackData object
feedbackDataOf(messageId, feedbackType, comment) ==
    [messageId |-> messageId, feedbackType |-> feedbackType, comment |-> comment,
     park |-> currentPark, messageText |-> messageTextOf(messages, messageId)]

\* handleFeedback whose map keeps of the message text what it stores in the log,
\* the first 100 characters
handleFeedback_CutsText(messageId, feedbackType, comment) ==
    /\ messages' =
         [i \in 1..Len(messages) |->
            IF messages[i].id = messageId
            THEN [messages[i] EXCEPT
                    !.feedback = [type |-> feedbackType, comment |-> comment],
                    !.text = Take(messages[i].text, 100)]
            ELSE messages[i]]
    /\ feedbackCalls' =
         Append(feedbackCalls,
                [pc |-> "getItem",
                 feedbackData |-> feedbackDataOf(messageId, feedbackType, comment),
                 feedbackArray |-> << >>])
    /\ lastEvent' = "other"
    /\ UNCHANGED <<currentPark, inputText, isLoading, cacheVars, conversationContext,
                   proxy, load, resolution, outstanding, clock, feedbackLog, voice,
                   formatted, monitor, recorder>>

\* handleFeedback(messageId, feedbackType, comment) up to `await getItem`
handleFeedback(messageId, feedbackType, comment) ==
    /\ messages' = attachFeedback(messages, messageId,
                                  [type |-> feedbackType, comment |-> comment])
    /\ feedbackCalls' =
         Append(feedbackCalls,
                [pc |-> "getItem",
                 feedbackData |-> feedbackDataOf(messageId, feedbackType, comment),
                 feedbackArray |-> << >>])
    /\ lastEvent' = "other"
    /\ UNCHANGED <<currentPark, inputText, isLoading, cacheVars, conversationContext,
                   proxy, load, resolution, outstanding, clock, feedbackLog, voice,
                   formatted, monitor, recorder>>

\* how an AsyncStorage call settles
StorageOutcomes == {"ok", "error"}

\* getItem settles for call i: the stored array (an absent item reads as []) is
\* parsed, feedbackData is pushed on the copy and setItem is called with it; a
\* rejection goes to the catch block
feedbackGetItem(i, outcome) ==
    /\ feedbackCalls[i].pc = "getItem"
    /\ feedbackCalls' =
         [feedbackCalls EXCEPT
            ![i] = IF outcome = "ok"
                   THEN [pc |-> "setItem",
                         feedbackData |-> feedbackCalls[i].feedbackData,
                         feedbackArray |-> Append(feedbackLog,
                                                  feedbackCalls[i].feedbackData)]
                   ELSE [pc |-> "failed",
                         feedbackData |-> feedbackCalls[i].feedbackData,
                         feedbackArray |-> << >>]]
    /\ lastEvent' = "other"
    /\ UNCHANGED <<currentPark, messages, inputText, isLoading, cacheVars,
                   conversationContext, proxy, load, resolution, outstanding, clock,
                   feedbackLog, voice,
                   formatted, monitor, recorder>>

\* setItem settles for call i: the item is replaced by the array the call built; a
\* rejection goes to the catch block and leaves the item as it was
feedbackSetItem(i, outcome) ==
    /\ feedbackCalls[i].pc = "setItem"
    /\ feedbackLog' = IF outcome = "ok" THEN feedbackCalls[i].feedbackArray
                      ELSE feedbackLog
    /\ feedbackCalls' =
         [feedbackCalls EXCEPT
            ![i] = [pc |-> IF outcome = "ok" THEN "stored" ELSE "failed",
                    feedbackData |-> feedbackCalls[i].feedbackData,
                    feedbackArray |-> feedbackCalls[i].feedbackArray]]
    /\ lastEvent' = "other"
    /\ UNCHANGED <<currentPark, messages, inputText, isLoading, cacheVars,
                   conversationContext, proxy, load, resolution, outstanding, clock,
                   voice,
                   formatted, monitor, recorder>>

(***************************************************************************)
(* VoiceService: transcribeAudio posts the recording to the transcription  *)
(* endpoint; processVoiceInput awaits it and hands the text to the         *)
(* onTranscription callback.  The callback is recorded, not interpreted.   *)
(***************************************************************************)
\* how the transcription request settles: fetch rejects, a non-2xx status, a 2xx
\* body that is not JSON, or a 2xx JSON body whose text field is the given value
WhisperOutcome(kind, text) == [kind |-> kind, text |-> text]

\* a promise that resolved with the value / rejected with an Error of the message
Resolved(value) == [threw |-> FALSE, value |-> value]
Rejected(message) == [threw |-> TRUE, value |-> message]

\* transcribeAudio whose catch block returns '' in place of throwing
transcribeAudio_SwallowsFailure(outcome) ==
    IF outcome.kind = "ok" /\ outcome.text.t = "string"
    THEN Resolved(trim(outcome.text.s))
    ELSE Resolved("")

\* transcribeAudio(audioUri) once its one fetch has settled: `!response.ok`, a
\* rejected fetch or json(), and `.trim()` on a text that is no string all end in
\* the catch block, which throws 'Failed to transcribe audio'
transcribeAudio(outcome) ==
    IF outcome.kind = "ok" /\ outcome.text.t = "string"
    THEN Resolved(trim(outcome.text.s))
    ELSE Rejected("Failed to transcribe audio")

\* processVoiceInput(audioUri, onTranscription) up to the await inside
\* transcribeAudio: the request is sent
processVoiceInput(audioUri) ==
    /\ voice.pc = "idle"
    /\ voice' = [voice EXCEPT !.pc = "transcribing", !.audioUri = audioUri,
                              !.requests = voice.requests + 1]
    /\ lastEvent' = "other"
    /\ UNCHANGED <<currentPark, messages, inputText, isLoading, cacheVars,
                   conversationContext, proxy, load, resolution, outstanding, clock,
                   feedbackLog, feedbackCalls,
                   formatted, monitor, recorder>>

\* what processVoiceInput has done when its promise settles: onTranscription is
\* called with the transcription, or the error is thrown on
voiceSettled(outcome, transcription) ==
    [pc |-> "idle", audioUri |-> voice.audioUri, requests |-> voice.requests,
     callbacks |-> IF transcription.threw THEN voice.callbacks
                   ELSE Append(voice.callbacks, transcription.value),
     settled |-> Append(voice.settled,
                        [outcome |-> outcome, threw |-> transcription.threw,
                         value |-> transcription.value])]

\* the transcription request settles and processVoiceInput runs to its end
receiveTranscription(outcome) ==
    /\ voice.pc = "transcribing"
    /\ voice' = voiceSettled(outcome, transcribeAudio(outcome))
    /\ lastEvent' = "other"
    /\ UNCHANGED <<currentPark, messages, inputText, isLoading, cacheVars,
                   conversationContext, proxy, load, resolution, outstanding, clock,
                   feedbackLog, feedbackCalls,
                   formatted, monitor, recorder>>

(***************************************************************************)
(* The bounded environment: what the user types, how the proxy answers,    *)
(* how many messages the user sends.                                       *)
(***************************************************************************)
\* the texts the user types
Inputs ==
    {"how long is the wait for space mountain",
     "what are epcot's hours",
     "   ",
     "where is space mountain",
     "is space mountain open at epcot",
     "epcot theater hours",
     "show me all rides",
     "character meets",
     "is frozen ever after fun",
     "animal kingdom hours",
     "What time does Magic Kingdom close",
     "hollywood studios hours",
     "space mountain or test track",
     "haunted mansion wait",
     "hello"}

\* the proxy worlds of Spec: each of the four endpoints either serves every park or
\* answers every park with a non-2xx status
EndpointWorlds ==
    {[p \in ParkIds |-> w] : w \in [Categories -> {"ok", "http_error"}]}

\* accepted submissions per session
MaxSends == 1

UserMessages == Cardinality({i \in 1..Len(messages) : messages[i].isUser})

\* an absent messageText argument
NoArgument == ""

Init == \E world \in EndpointWorlds : InitState(world)

Next ==
    \/ loadAttractions
    \/ \E text \in Inputs : UserMessages < MaxSends /\ setInputText(text)
    \/ \E parkId \in ExtendedParkIds : UserMessages < MaxSends /\ selectPark(parkId)
    \/ sendMessage(NoArgument)
    \/ \E outcome \in CompletionOutcomes : receiveCompletion(outcome)
    \/ sendMessageResume

Spec == Init /\ [][Next]_vars

\* the session specification: two exchanges over a few texts, with the proxy either
\* serving every endpoint or failing every endpoint
SessionInputs ==
    {"hello", "what are epcot's hours", "animal kingdom hours", "   "}

SessionWorlds ==
    {[p \in ParkIds |-> [c \in Categories |-> answer]] : answer \in {"ok", "http_error"}}

\* accepted submissions per session in SessionSpec
MaxSessionSends == 2

SessionInit == \E world \in SessionWorlds : InitState(world)

SessionNext ==
    \/ loadAttractions
    \/ \E text \in SessionInputs : UserMessages < MaxSessionSends /\ setInputText(text)
    \/ \E parkId \in ExtendedParkIds :
            UserMessages < MaxSessionSends /\ selectPark(parkId)
    \/ sendMessage(NoArgument)
    \/ \E outcome \in CompletionOutcomes : receiveCompletion(outcome)
    \/ sendMessageResume

SessionSpec == SessionInit /\ [][SessionNext]_vars

\* the buffer specification: a session long enough to fill the recent-input buffer
\* and push its oldest entries out, over two accepted texts (one answered after a
\* failed completion request, one whose resolution raises) and a blank one
BufferInputs == {"hello", "animal kingdom hours", "   "}

\* accepted submissions per session in BufferSpec
MaxBufferSends == 7

BufferNext ==
    \/ loadAttractions
    \/ \E text \in BufferInputs : UserMessages < MaxBufferSends /\ setInputText(text)
    \/ sendMessage(NoArgument)
    \/ receiveCompletion(CompletionResult(TRUE, FALSE, FALSE, FALSE, << >>))
    \/ sendMessageResume

BufferSpec ==
    InitState([p \in ParkIds |-> [c \in Categories |-> "ok"]]) /\ [][BufferNext]_vars

\* the progress specification: short sessions over the texts of BufferSpec, the
\* completion request failing or being answered with a text
MaxLiveSends == 2

\* the continuations the event loop runs without the user: the refresh going on,
\* the completion request in flight failing or being answered, the handler whose
\* awaited promise has settled being resumed.  At most one of them is ready at a time.
Continuation ==
    \/ loadAttractions
    \/ \E outcome \in {CompletionResult(TRUE, FALSE, FALSE, FALSE, << >>),
                         CompletionResult(FALSE, TRUE, TRUE, TRUE,
                            <<[hasMessage |-> TRUE, content |-> JStr(CompletionText)]>>)} :
            receiveCompletion(outcome)
    \/ sendMessageResume

LiveNext ==
    \/ \E text \in BufferInputs : UserMessages < MaxLiveSends /\ setInputText(text)
    \/ sendMessage(NoArgument)
    \/ Continuation

\* a continuation that is ready is run
LiveSpec ==
    /\ InitState([p \in ParkIds |-> [c \in Categories |-> "ok"]])
    /\ [][LiveNext]_vars
    /\ WF_vars(Continuation)

\* the feedback specification: one exchange, and thumbs pressed on the messages that
\* offer them; handleFeedback is also called again for a message that has feedback
\* (FeedbackComponent itself hides the buttons once feedback is set)
FeedbackInputs == {"hello", "animal kingdom hours"}

FeedbackWorld == [p \in ParkIds |-> [c \in Categories |-> "ok"]]

\* the arguments of handleFeedback after the message id
FeedbackChoices ==
    {[feedbackType |-> "positive", comment |-> Undefined],
     [feedbackType |-> "negative", comment |-> "wrong park"]}

\* accepted submissions and calls of handleFeedback per session in FeedbackSpec
MaxFeedbackSends == 1
MaxFeedback == 2

FeedbackInit == InitState(FeedbackWorld)

FeedbackNext ==
    \/ loadAttractions
    \/ \E text \in FeedbackInputs : UserMessages < MaxFeedbackSends /\ setInputText(text)
    \/ sendMessage(NoArgument)
    \/ \E outcome \in CompletionOutcomes : receiveCompletion(outcome)
    \/ sendMessageResume
    \/ \E m \in 1..Len(messages) : \E choice \in FeedbackChoices :
            /\ Len(feedbackCalls) < MaxFeedback
            /\ messages[m].showFeedback
            /\ handleFeedback(messages[m].id, choice.feedbackType, choice.comment)
    \/ \E i \in 1..Len(feedbackCalls) : \E outcome \in StorageOutcomes :
            feedbackGetItem(i, outcome)
    \/ \E i \in 1..Len(feedbackCalls) : \E outcome \in StorageOutcomes :
            feedbackSetItem(i, outcome)

FeedbackSpec == FeedbackInit /\ [][FeedbackNext]_vars

\* the park specification: one exchange over texts that name no park, one park or
\* two parks, with the park selector and one feedback press
ParkInputs ==
    {"what are epcot's hours",
     "epcot theater hours",
     "where is space mountain",
     "Magic Kingdom or EPCOT",
     "ak or hs",
     "hello",
     "   "}

\* accepted submissions and calls of handleFeedback per session in ParkSpec
MaxParkSends == 1
MaxParkFeedback == 1

ParkInit == InitState(FeedbackWorld)

ParkNext ==
    \/ loadAttractions
    \/ \E text \in ParkInputs : UserMessages < MaxParkSends /\ setInputText(text)
    \/ \E parkId \in ExtendedParkIds : UserMessages < MaxParkSends /\ selectPark(parkId)
    \/ sendMessage(NoArgument)
    \/ \E outcome \in CompletionOutcomes : receiveCompletion(outcome)
    \/ sendMessageResume
    \/ \E m \in 1..Len(messages) : \E choice \in FeedbackChoices :
            /\ Len(feedbackCalls) < MaxParkFeedback
            /\ messages[m].showFeedback
            /\ handleFeedback(messages[m].id, choice.feedbackType, choice.comment)
    \/ \E i \in 1..Len(feedbackCalls) : \E outcome \in StorageOutcomes :
            feedbackGetItem(i, outcome)
    \/ \E i \in 1..Len(feedbackCalls) : \E outcome \in StorageOutcomes :
            feedbackSetItem(i, outcome)

ParkSpec == ParkInit /\ [][ParkNext]_vars

\* the refresh specification: the mount-time refresh alone, over worlds in which
\* every park's wait-times endpoint answers in any of the four ways and its other
\* three endpoints either all serve the park or all answer with a non-2xx status
ParkAnswers ==
    {[c \in Categories |-> IF c = "waitTimes" THEN w ELSE rest] :
        w \in ProxyOutcomes, rest \in {"ok", "http_error"}}

RefreshWorlds == [ParkIds -> ParkAnswers]

RefreshInit == \E world \in RefreshWorlds : InitState(world)

RefreshNext == loadAttractions

RefreshSpec == RefreshInit /\ [][RefreshNext]_vars

\* the voice specification: recordings handed to processVoiceInput one after the
\* other, the transcription endpoint answering in every way
AudioUris == {"file:///recording-1.m4a", "file:///recording-2.m4a"}

WhisperOutcomes ==
    {WhisperOutcome("network_error", JNull),
     WhisperOutcome("http_error", JNull),
     WhisperOutcome("invalid_json", JNull),
     WhisperOutcome("ok", JStr("  what are epcot's hours ")),
     WhisperOutcome("ok", JStr("")),
     WhisperOutcome("ok", JNull),
     WhisperOutcome("ok", JNum(7))}

\* calls of processVoiceInput per session in VoiceSpec
MaxVoiceInputs == 3

VoiceInit == InitState(FeedbackWorld)

VoiceNext ==
    \/ \E audioUri \in AudioUris :
            voice.requests < MaxVoiceInputs /\ processVoiceInput(audioUri)
    \/ \E outcome \in WhisperOutcomes : receiveTranscription(outcome)

VoiceSpec == VoiceInit /\ [][VoiceNext]_vars

\* the clock specification: formatTime called with every time of the day, written
\* with and without the leading zero of the hour, and with the other values an
\* openingTime or closingTime field of the hours data can hold
TwoDigits(n) == IF n < 10 THEN "0" \o ToString(n) ELSE ToString(n)

ClockText(hh, mm, padded) ==
    (IF padded THEN TwoDigits(hh) ELSE ToString(hh)) \o ":" \o TwoDigits(mm)

TimeInputs ==
    {JStr(ClockText(hh, mm, padded)) : hh \in 0..23, mm \in 0..59, padded \in BOOLEAN}
    \cup {JNull, JStr(""), JStr("0900"), JStr("closed"), JNum(0), JNum(800)}

\* formatTime(militaryTime), as tryPatternMatch calls it; the function keeps no
\* state, so a behaviour holds one call
formatTimeCall(militaryTime) ==
    /\ ~formatted.called
    /\ formatted' = [called |-> TRUE, militaryTime |-> militaryTime,
                     result |-> formatTime(militaryTime)]
    /\ UNCHANGED <<currentPark, messages, inputText, isLoading, cacheVars,
                   conversationContext, proxy, load, resolution, outstanding, clock,
                   lastEvent, feedbackLog, feedbackCalls, voice, monitor, recorder>>

TimeNext == \E militaryTime \in TimeInputs : formatTimeCall(militaryTime)

TimeSpec == InitState(FeedbackWorld) /\ [][TimeNext]_vars

(***************************************************************************)
(* PixiePalNotificationService: startMonitoring and stopMonitoring.  An    *)
(* activation of startMonitoring is suspended at `await getUserPreferences` *)
(* and at `await checkForAlerts`; stopMonitoring has no await.  A timer is  *)
(* named by the activation that set it.  The interval callback changes no  *)
(* field of the service (it calls checkForAlerts when isMonitoring is set) *)
(* and has no step of its own.                                             *)
(***************************************************************************)
\* the state of the chat screen and of the voice service
screenVars ==
    <<currentPark, messages, inputText, isLoading, cacheVars, conversationContext,
      proxy, load, resolution, outstanding, clock, lastEvent, feedbackLog,
      feedbackCalls, voice>>

\* calls of startMonitoring and of stopMonitoring per behaviour
MaxMonitorStarts == 3

MaxMonitorStops == 2

\* startMonitoring() up to `await this.getUserPreferences()`
startMonitoring ==
    /\ Len(monitor.starts) < MaxMonitorStarts
    /\ monitor' =
         [monitor EXCEPT
            !.starts = Append(@, [pc |-> IF monitor.isMonitoring
                                         THEN "returned"
                                         ELSE "getUserPreferences",
                                  stopped |-> FALSE])]
    /\ UNCHANGED <<screenVars, formatted, recorder>>

\* `await this.getUserPreferences()` settles, with enableAlerts set ("enabled") or
\* not ("disabled") or with a rejection ("rejected", setItem failing in
\* saveUserPreferences): return, or set isMonitoring and go on to
\* `await this.checkForAlerts()`
startMonitoringPreferences(i, outcome) ==
    /\ i \in 1..Len(monitor.starts)
    /\ monitor.starts[i].pc = "getUserPreferences"
    /\ monitor' =
         IF outcome = "enabled"
         THEN [monitor EXCEPT !.isMonitoring = TRUE,
                              !.starts[i].pc = "checkForAlerts"]
         ELSE [monitor EXCEPT !.starts[i].pc = "returned"]
    /\ UNCHANGED <<screenVars, formatted, recorder>>

\* checkForAlerts has settled (it catches its errors): setInterval, and return
startMonitoringSchedule(i) ==
    /\ i \in 1..Len(monitor.starts)
    /\ monitor.starts[i].pc = "checkForAlerts"
    /\ monitor' =
         [monitor EXCEPT !.timers = @ \cup {i},
                         !.monitoringInterval = i,
                         !.starts[i].pc = "returned"]
    /\ UNCHANGED <<screenVars, formatted, recorder>>

\* stopMonitoring(): it runs to its end in one turn.  `stopped` marks the
\* activations of startMonitoring made before this call.
stopMonitoring ==
    /\ monitor.stops < MaxMonitorStops
    /\ monitor' =
         [monitor EXCEPT
            !.isMonitoring = FALSE,
            !.timers = IF monitor.monitoringInterval # 0
                       THEN @ \ {monitor.monitoringInterval}
                       ELSE @,
            !.monitoringInterval = 0,
            !.starts = [i \in 1..Len(@) |-> [@[i] EXCEPT !.stopped = TRUE]],
            !.stops = @ + 1]
    /\ UNCHANGED <<screenVars, formatted, recorder>>

MonitorNext ==
    \/ startMonitoring
    \/ \E i \in 1..MaxMonitorStarts, outcome \in {"enabled", "disabled", "rejected"} :
            startMonitoringPreferences(i, outcome)
    \/ \E i \in 1..MaxMonitorStarts : startMonitoringSchedule(i)
    \/ stopMonitoring

MonitorSpec == InitState(FeedbackWorld) /\ [][MonitorNext]_vars

(***************************************************************************)
(* VoiceInput: the press-and-hold button.  recording and isRecording are   *)
(* React state, read by a handler as of the latest render.  A recording is *)
(* named by the press that started it; `active` holds the recordings that  *)
(* were created and not yet stopped and unloaded.                          *)
(***************************************************************************)
\* presses of the button per behaviour
MaxPresses == 3

\* handlePressIn: startRecording() up to `await requestPermissions()`
handlePressIn ==
    /\ ~recorder.pressed
    /\ recorder.presses < MaxPresses
    /\ recorder' = [recorder EXCEPT !.pressed = TRUE,
                                    !.presses = @ + 1,
                                    !.starting = @ \cup {recorder.presses + 1}]
    /\ UNCHANGED <<screenVars, formatted, monitor>>

\* startRecording after its awaits, which end with the permission refused
\* ("denied"), an error that is caught ("error") or the Recording object
\* ("created"): setRecording(newRecording), setIsRecording(true).
\* Audio.Recording.createAsync rejects while another Recording is prepared.
startRecordingResume(r, outcome) ==
    /\ r \in recorder.starting
    /\ outcome = "created" => recorder.active = {}
    /\ recorder' =
         IF outcome = "created"
         THEN [recorder EXCEPT !.starting = @ \ {r},
                               !.recording = r,
                               !.isRecording = TRUE,
                               !.active = @ \cup {r}]
         ELSE [recorder EXCEPT !.starting = @ \ {r}]
    /\ UNCHANGED <<screenVars, formatted, monitor>>

\* handlePressOut: return unless isRecording; stopRecording() up to
\* `await recording.stopAndUnloadAsync()`
handlePressOut ==
    /\ recorder.pressed
    /\ recorder' =
         IF recorder.isRecording /\ recorder.recording # 0
         THEN [recorder EXCEPT !.pressed = FALSE,
                               !.isRecording = FALSE,
                               !.stopping = @ \cup {recorder.recording}]
         ELSE [recorder EXCEPT !.pressed = FALSE]
    /\ UNCHANGED <<screenVars, formatted, monitor>>

\* stopRecording after its await: onVoiceResult(uri) when getURI() gives one ("uri",
\* else "no_uri"), then setRecording(null); a rejection ("error") is caught and
\* leaves the recording state as it is
stopRecordingResume(r, outcome) ==
    /\ r \in recorder.stopping
    /\ recorder' =
         [recorder EXCEPT
            !.stopping = @ \ {r},
            !.active = @ \ {r},
            !.delivered = IF outcome = "uri"
                           THEN Append(@, "file:///recording-" \o ToString(r) \o ".m4a")
                           ELSE @,
            !.recording = IF outcome = "error" THEN @ ELSE 0]
    /\ UNCHANGED <<screenVars, formatted, monitor>>

ButtonNext ==
    \/ handlePressIn
    \/ \E r \in 1..MaxPresses, outcome \in {"denied", "error", "created"} :
            startRecordingResume(r, outcome)
    \/ handlePressOut
    \/ \E r \in 1..MaxPresses, outcome \in {"uri", "no_uri", "error"} :
            stopRecordingResume(r, outcome)

ButtonSpec == InitState(FeedbackWorld) /\ [][ButtonNext]_vars

(***************************************************************************)
(* Vocabulary of the properties.                                           *)
(***************************************************************************)
\* the text consists of white space only (or is empty)
AllWhitespace(s) == \A i \in 1..Len(s) : IsSpace(CharAt(s, i))

\* the entries of the attraction table whose keyword occurs in the text
KeywordsIn(text) ==
    {i \in 1..Len(ATTRACTION_TO_PARK) : Includes(toLowerCase(text), ATTRACTION_TO_PARK[i][1])}

\* the step is a submission that was accepted
AcceptedSubmit ==
    lastEvent' = "submit" /\ Len(messages') = Len(messages) + 1

\* the response to the accepted message has been determined
Determined == resolution.pc = "settled"

(***************************************************************************)
(* C1: when the message contains a known attraction keyword, the current   *)
(* park after resolution equals the park that owns the attraction,         *)
(* whatever the current park was before the message.  Stated for the       *)
(* messages whose keywords all belong to one park, and at the step that    *)
(* accepts the message: no later step of the resolution writes the         *)
(* current park.                                                           *)
(***************************************************************************)
C1_AttractionSetsOwningPark ==
    [][AcceptedSubmit =>
          LET owners == {ATTRACTION_TO_PARK[i][2] : i \in KeywordsIn(resolution'.input)}
          IN  \A p \in owners : owners = {p} => currentPark' = p]_vars

(***************************************************************************)
(* C2: a submission made while a resolution is outstanding changes         *)
(* nothing (no message, no resolution, no context entry), and at most one  *)
(* resolution is in flight at any time.                                    *)
(***************************************************************************)
C2_BusySubmitIsNoOp ==
    [][/\ outstanding' <= 1
       /\ (lastEvent' = "submit" /\ outstanding > 0) =>
             UNCHANGED <<messages, resolution, outstanding, conversationContext,
                         currentPark, isLoading>>]_vars

\* a submission of a real text was made, and rejected, while a resolution was
\* outstanding (an accepted submission clears the text field)
C2_Witness ==
    lastEvent = "submit" /\ outstanding = 1 /\ ~AllWhitespace(inputText)

(***************************************************************************)
(* C3: a submission whose text is empty or only white space appends no     *)
(* message and starts no resolution.                                       *)
(***************************************************************************)
C3_BlankSubmitIsNoOp ==
    [][(lastEvent' = "submit" /\ AllWhitespace(inputText)) =>
          UNCHANGED <<messages, resolution, outstanding, conversationContext,
                      currentPark, isLoading>>]_vars

\* a white-space text was submitted while the screen was idle
C3_Witness ==
    /\ lastEvent = "submit"
    /\ inputText = "   "
    /\ ~isLoading
    /\ load.pc = "done"
    /\ Len(messages) = 1

(***************************************************************************)
(* C4: every accepted submission appends exactly one user message and then *)
(* exactly one assistant message, with nothing in between; the screen is   *)
(* awaiting a response between the two and idle after the second.  After   *)
(* the welcome message the history therefore alternates user, assistant;   *)
(* while it ends in a user message one resolution is outstanding for that  *)
(* message, and once it ends in the reply the screen is idle.              *)
(***************************************************************************)
C4_ExchangeShape ==
    LET n == Len(messages)
    IN  /\ \A i \in 2..n : messages[i].isUser <=> (i % 2 = 0)
        /\ (n % 2 = 0) =>
              /\ isLoading /\ outstanding = 1
              /\ resolution.pc \in {"fetching", "settled"}
              /\ messages[n].text = resolution.input
        /\ (n % 2 = 1 /\ n > 1) =>
              /\ ~isLoading /\ outstanding = 0
              /\ resolution.pc = "idle"
              /\ messages[n - 1].text = resolution.input
              /\ messages[n].text =
                    IF resolution.result.threw THEN ApologyText
                    ELSE resolution.result.text

\* two exchanges have completed
C4_Witness ==
    /\ Len(messages) = 5
    /\ messages[2].isUser /\ ~messages[3].isUser
    /\ messages[4].isUser /\ ~messages[5].isUser
    /\ ~isLoading

(***************************************************************************)
(* C5: the AI Fallback Composer never raises: once the completion request  *)
(* of a message has settled, whatever its outcome, the composer has        *)
(* returned to its caller, and what it returned is a non-empty string.     *)
(***************************************************************************)
C5_ComposerAlwaysAnswers ==
    (resolution.pc \in {"settled", "idle"} /\ resolution.requests > 0) =>
        /\ ~resolution.result.threw
        /\ resolution.result.type = "string"
        /\ resolution.result.text # ""

(***************************************************************************)
(* C6: when the resolution pipeline raises, the step that ends the         *)
(* resolution appends exactly one assistant message, the generic apology,  *)
(* leaves the earlier messages as they were and returns the screen to      *)
(* idle; and a non-blank submission made when the history ends in the      *)
(* apology is accepted.                                                    *)
(***************************************************************************)
C6_RaiseYieldsOneApology ==
    [][/\ (resolution.pc = "settled" /\ resolution.result.threw
              /\ resolution'.pc = "idle") =>
             /\ Len(messages') = Len(messages) + 1
             /\ SubSeq(messages', 1, Len(messages)) = messages
             /\ messages'[Len(messages')].text = ApologyText
             /\ ~messages'[Len(messages')].isUser
             /\ ~isLoading' /\ outstanding' = 0
       /\ (/\ lastEvent' = "submit"
           /\ messages[Len(messages)].text = ApologyText
           /\ ~AllWhitespace(inputText)) =>
             /\ Len(messages') = Len(messages) + 1
             /\ messages'[Len(messages')].isUser
             /\ messages'[Len(messages')].text = trim(inputText)
             /\ outstanding' = 1]_vars

\* the pipeline raised, the apology was shown and the next message was accepted
C6_Witness ==
    /\ Len(messages) >= 4
    /\ messages[3].text = ApologyText
    /\ messages[4].isUser

(***************************************************************************)
(* C7: at most one completion request is issued per user message: none     *)
(* when the pattern responder (or a raise in it) ends the resolution, one  *)
(* when the composer answers, and a failed request is not repeated.        *)
(***************************************************************************)
C7_AtMostOneCompletionRequest ==
    /\ resolution.requests <= 1
    /\ resolution.result.stage = "pattern" => resolution.requests = 0
    /\ resolution.result.threw => resolution.requests = 0
    /\ resolution.result.stage \in {"ai", "fallback"} => resolution.requests = 1

\* the request failed, the fallback answered, and one request was made
C7_Witness ==
    /\ resolution.pc = "idle"
    /\ resolution.result.stage = "fallback"
    /\ resolution.requests = 1
    /\ ~messages[Len(messages)].isUser

(***************************************************************************)
(* Vocabulary of the hours and attraction properties.                      *)
(***************************************************************************)
\* s is a 24-hour clock time hh:mm
IsMilitary(s) ==
    /\ Len(s) = 5
    /\ CharAt(s, 3) = ":"
    /\ \A i \in {1, 2, 4, 5} : IsDigit(CharAt(s, i))
    /\ DigitValue(CharAt(s, 1)) * 10 + DigitValue(CharAt(s, 2)) <= 23
    /\ DigitValue(CharAt(s, 4)) <= 5

\* the 12-hour clock string of a 24-hour time hh:mm
Clock12(s) ==
    LET h == DigitValue(CharAt(s, 1)) * 10 + DigitValue(CharAt(s, 2))
    IN  ToString(IF h % 12 = 0 THEN 12 ELSE h % 12) \o ":" \o SubSeq(s, 4, 5)
        \o (IF h < 12 THEN " AM" ELSE " PM")

\* the text shows the time v as a 12-hour clock string
ShowsClock(text, v) ==
    v.t = "string" /\ IsMilitary(v.s) /\ Includes(text, Clock12(v.s))

\* the days of the hours entry cached for the park, << >> when there is none
CachedDays(st, park) ==
    LET k == findParkHours(st.allParkHours, park)
    IN  IF k # 0 /\ st.allParkHours[k].hours.hasHours
        THEN st.allParkHours[k].hours.hours ELSE << >>

\* the park has cached hours with a non-null opening and closing time
HasOpenClose(st, park) ==
    /\ Len(CachedDays(st, park)) > 0
    /\ CachedDays(st, park)[1].openingTime.t # "null"
    /\ CachedDays(st, park)[1].closingTime.t # "null"

\* dates and times of the first two cached days are strings or null
WellFormedDays(days) ==
    \A i \in 1..Len(days) : i <= 2 =>
        /\ days[i].date.t \in {"string", "null"}
        /\ days[i].openingTime.t \in {"string", "null"}
        /\ days[i].closingTime.t \in {"string", "null"}

\* the analysis of the message being resolved
Analysis == analyzeQuery(resolution.input)

\* the attraction rule answers the message being resolved
RideAnswers ==
    answeringRide(toLowerCase(resolution.input), resolution.targetPark,
                  resolution.st.allAttractions) # 0

(***************************************************************************)
(* C8 as stated: for every time query whose target park has cached hours   *)
(* with a non-null opening and closing time, the response contains both    *)
(* times as 12-hour clock strings.                                         *)
(***************************************************************************)
C8_TimeQueryShowsCachedHours ==
    (Determined /\ Analysis.isTimeQuery
        /\ HasOpenClose(resolution.st, resolution.targetPark)) =>
        LET today == CachedDays(resolution.st, resolution.targetPark)[1]
        IN  /\ ~resolution.result.threw
            /\ ShowsClock(resolution.result.text, today.openingTime)
            /\ ShowsClock(resolution.result.text, today.closingTime)

(***************************************************************************)
(* C8 amended: for every time query that is not a specific-location time   *)
(* query and that the attraction rule does not answer, when the target     *)
(* park's cached hours are well formed and today's opening and closing     *)
(* times are 24-hour hh:mm strings, the response is the pattern            *)
(* responder's and contains "<opening> - <closing>" with both times as     *)
(* 12-hour clock strings; no completion request is made.                   *)
(***************************************************************************)
C8_PlainTimeQueryShowsCachedHours ==
    (Determined /\ Analysis.isTimeQuery /\ ~Analysis.isSpecificLocationTime
        /\ ~RideAnswers
        /\ HasOpenClose(resolution.st, resolution.targetPark)
        /\ WellFormedDays(CachedDays(resolution.st, resolution.targetPark))
        /\ CachedDays(resolution.st, resolution.targetPark)[1].openingTime.t = "string"
        /\ CachedDays(resolution.st, resolution.targetPark)[1].closingTime.t = "string"
        /\ IsMilitary(CachedDays(resolution.st, resolution.targetPark)[1].openingTime.s)
        /\ IsMilitary(CachedDays(resolution.st, resolution.targetPark)[1].closingTime.s)) =>
        LET today == CachedDays(resolution.st, resolution.targetPark)[1]
        IN  /\ ~resolution.result.threw
            /\ resolution.result.stage = "pattern"
            /\ resolution.requests = 0
            /\ Includes(resolution.result.text,
                        Clock12(today.openingTime.s) \o " - "
                        \o Clock12(today.closingTime.s))

\* a time query about EPCOT, asked from another park, answered from the cached hours
\* (noon to 21:00)
C8_Witness ==
    /\ Determined
    /\ resolution.input = "what are epcot's hours"
    /\ resolution.st.currentPark # "epcot"
    /\ HasOpenClose(resolution.st, "epcot")
    /\ Includes(resolution.result.text, "12:00 PM - 9:00 PM")

(***************************************************************************)
(* C9 as stated: for a time query that names a theme park for which no     *)
(* hours are cached, the response contains that park's typical-hours       *)
(* string, whatever the current park was, and no completion request is     *)
(* sent.                                                                   *)
(***************************************************************************)
C9_TimeQueryShowsTypicalHours ==
    (resolution.pc \in {"fetching", "settled"} /\ Analysis.isTimeQuery
        /\ Analysis.targetPark \in ParkIds
        /\ Len(CachedDays(resolution.st, Analysis.targetPark)) = 0) =>
        /\ resolution.requests = 0
        /\ ~resolution.result.threw
        /\ Includes(resolution.result.text, generalHours[Analysis.targetPark])

(***************************************************************************)
(* C9 amended: for a time query that names a theme park, that is not a     *)
(* specific-location time query and that the attraction rule does not      *)
(* answer, when no hours are cached for that park the response is the      *)
(* pattern responder's and contains that park's typical-hours string,      *)
(* whatever the current park was, and no completion request is sent.       *)
(***************************************************************************)
C9_PlainTimeQueryShowsTypicalHours ==
    (resolution.pc \in {"fetching", "settled"} /\ Analysis.isTimeQuery
        /\ ~Analysis.isSpecificLocationTime /\ ~RideAnswers
        /\ Analysis.targetPark \in ParkIds
        /\ Len(CachedDays(resolution.st, Analysis.targetPark)) = 0) =>
        /\ resolution.pc = "settled"
        /\ resolution.requests = 0
        /\ ~resolution.result.threw
        /\ resolution.result.stage = "pattern"
        /\ Includes(resolution.result.text,
                    "**Typical:** " \o generalHours[Analysis.targetPark])

\* EPCOT's hours asked from another park with no hours cached
C9_Witness ==
    /\ Determined
    /\ resolution.input = "what are epcot's hours"
    /\ resolution.st.currentPark \notin {"epcot", "hollywoodStudios"}
    /\ resolution.st.allParkHours = << >>
    /\ Includes(resolution.result.text, "9:00 AM - 9:00 PM")
    /\ resolution.requests = 0

(***************************************************************************)
(* C10 as stated: when the input contains a known attraction keyword and   *)
(* the cache holds a live record for it in its owning park, the pattern    *)
(* responder's answer states the record's wait time in minutes and its     *)
(* location, and mentions Lightning Lane exactly when the record's flag is *)
(* set.                                                                    *)
(***************************************************************************)
C10_LiveRecordAnswer ==
    Determined =>
        \A i \in KeywordsIn(resolution.input) :
            LET rideName == ATTRACTION_TO_PARK[i][1]
                parkId == ATTRACTION_TO_PARK[i][2]
                k == findAttraction(resolution.st.allAttractions, parkId, rideName)
                attraction == resolution.st.allAttractions[k]
                text == resolution.result.text
            IN  k # 0 =>
                    /\ resolution.result.stage = "pattern"
                    /\ Includes(text, ToString(attraction.waitTime) \o " minute wait")
                    /\ Includes(text, PARK_NAMES[parkId])
                    /\ Includes(text, " in " \o OrElse(attraction.land, "the park"))
                    /\ Includes(text, "Lightning Lane") <=> attraction.hasLightningLane

(***************************************************************************)
(* C10 amended: the pattern responder answers for the first keyword, in    *)
(* table order, that has a live record or belongs to a park other than the *)
(* target park.  When that keyword has a live record, the answer names the *)
(* record and states its location (park name and land); unless the input   *)
(* contains "where" and none of "wait", "how long", "open", it also states *)
(* the wait time in minutes and mentions Lightning Lane exactly when the   *)
(* record's flag is set; in the where-only case it states no wait time and *)
(* does not mention Lightning Lane.                                        *)
(***************************************************************************)
C10_FirstLiveRecordAnswer ==
    (Determined /\ RideAnswers) =>
        LET lowerInput == toLowerCase(resolution.input)
            i == answeringRide(lowerInput, resolution.targetPark,
                               resolution.st.allAttractions)
            rideName == ATTRACTION_TO_PARK[i][1]
            parkId == ATTRACTION_TO_PARK[i][2]
            k == findAttraction(resolution.st.allAttractions, parkId, rideName)
            attraction == resolution.st.allAttractions[k]
            text == resolution.result.text
            whereOnly == /\ Includes(lowerInput, "where")
                         /\ ~Includes(lowerInput, "wait")
                         /\ ~Includes(lowerInput, "how long")
                         /\ ~Includes(lowerInput, "open")
        IN  k # 0 =>
                /\ resolution.result.stage = "pattern"
                /\ resolution.requests = 0
                /\ Includes(text, attraction.name)
                /\ Includes(text, PARK_NAMES[parkId])
                /\ Includes(text, " in " \o OrElse(attraction.land, "the park"))
                /\ ~whereOnly =>
                      /\ Includes(text, ToString(attraction.waitTime) \o " minute wait")
                      /\ Includes(text, "Lightning Lane") <=> attraction.hasLightningLane
                /\ whereOnly =>
                      /\ ~Includes(text, "minute wait")
                      /\ ~Includes(text, "Lightning Lane")

\* the wait for Space Mountain asked from EPCOT: 45 minutes, Lightning Lane, and the
\* current park becomes Magic Kingdom
C10_Witness ==
    /\ Determined
    /\ resolution.input = "how long is the wait for space mountain"
    /\ resolution.st.currentPark = "epcot"
    /\ Includes(resolution.result.text, "45 minute wait")
    /\ Includes(resolution.result.text, "Lightning Lane")
    /\ currentPark = "magicKingdom"

AttachmentsFor(id) ==
    {k \in 1..Len(feedbackCalls) : feedbackCalls[k].feedbackData.messageId = id}

\* type and comment of the most recent attachment for the id, NoFeedback when there
\* is none
LatestAttachment(id) ==
    IF AttachmentsFor(id) = {} THEN NoFeedback
    ELSE LET k == CHOOSE k \in AttachmentsFor(id) : \A j \in AttachmentsFor(id) : j <= k
         IN  [type |-> feedbackCalls[k].feedbackData.feedbackType,
              comment |-> feedbackCalls[k].feedbackData.comment]

(***************************************************************************)
(* C12: after any sequence of feedback attachments, the in-memory feedback *)
(* field of every message holds the type and the comment of the most       *)
(* recent attachment made for that message's id; a message for whose id    *)
(* no attachment was made has no feedback.                                 *)
(***************************************************************************)
C12_FeedbackIsLatestAttachment ==
    \A i \in 1..Len(messages) : messages[i].feedback = LatestAttachment(messages[i].id)

\* two attachments with different types were made for one message, and another
\* message that offers the buttons has none
C12_Witness ==
    /\ Len(feedbackCalls) = 2
    /\ feedbackCalls[1].feedbackData.messageId = feedbackCalls[2].feedbackData.messageId
    /\ feedbackCalls[1].feedbackData.feedbackType # feedbackCalls[2].feedbackData.feedbackType
    /\ \E i, j \in 1..Len(messages) :
            /\ messages[i].id = feedbackCalls[2].feedbackData.messageId
            /\ messages[i].feedback.type = feedbackCalls[2].feedbackData.feedbackType
            /\ messages[j].showFeedback
            /\ messages[j].feedback = NoFeedback

(***************************************************************************)
(* C13: the stored feedback log is append-only.  Every attachment that     *)
(* completes without a storage error has added exactly one entry, also     *)
(* when attachments overlap in time: the log has as many entries as        *)
(* attachments have completed, and every completed attachment's entry is   *)
(* in it.                                                                  *)
(***************************************************************************)
C13_LogHoldsEveryCompletedAttachment ==
    /\ Len(feedbackLog) = Cardinality({k \in 1..Len(feedbackCalls) :
                                          feedbackCalls[k].pc = "stored"})
    /\ \A k \in 1..Len(feedbackCalls) :
            feedbackCalls[k].pc = "stored"
            => \E e \in 1..Len(feedbackLog) : feedbackLog[e] = feedbackCalls[k].feedbackData

(***************************************************************************)
(* C14: the Pattern Responder is the only component that changes the       *)
(* current park: whenever the current park changes, the step is an         *)
(* accepted submission in which tryPatternMatch requested the new park.    *)
(***************************************************************************)
C14_OnlyPatternResponderSetsPark ==
    [][currentPark' # currentPark
       => /\ AcceptedSubmit
          /\ resolution'.pattern.setCurrentPark = currentPark']_vars

\* the step changes nothing but the current park: the park selector
SelectorStep ==
    UNCHANGED <<messages, inputText, isLoading, cacheVars, conversationContext, proxy,
                load, resolution, outstanding, clock, sideVars>>

(***************************************************************************)
(* C14, amended: the current park changes only in the park selector and in *)
(* an accepted submission, which leaves it at the park tryPatternMatch     *)
(* requested or, when it requested none, at the target park                *)
(* processUserInput resolved.  The rest of the resolution, the data        *)
(* refresh, the feedback attachment with its storage calls and a rejected  *)
(* submission leave it unchanged.                                          *)
(***************************************************************************)
C14_ParkSetBySubmitOrSelector ==
    [][currentPark' # currentPark
       => \/ SelectorStep
          \/ /\ AcceptedSubmit
             /\ currentPark' = IF resolution'.pattern.setCurrentPark # NoPark
                               THEN resolution'.pattern.setCurrentPark
                               ELSE resolution'.targetPark]_vars

\* processUserInput, not the Pattern Responder, has changed the current park to the
\* park the text names; the refresh is done, the completion has settled and a
\* feedback press has been stored since
C14_Witness ==
    /\ resolution.pc = "settled"
    /\ resolution.requests = 1
    /\ resolution.pattern.setCurrentPark = NoPark
    /\ resolution.st.currentPark # resolution.targetPark
    /\ currentPark = resolution.targetPark
    /\ load.pc = "done"
    /\ Len(feedbackCalls) = 1
    /\ feedbackCalls[1].pc = "stored"

\* the name and abbreviation keywords of the theme parks, in the order of the test
ParkKeywords ==
    <<[park |-> "magicKingdom", keywords |-> {"mk", "magic kingdom"}],
      [park |-> "epcot", keywords |-> {"epcot", "ep"}],
      [park |-> "hollywoodStudios", keywords |-> {"hollywood", "hs"}],
      [park |-> "animalKingdom", keywords |-> {"animal", "ak"}]>>

\* the entries of ParkKeywords one of whose keywords occurs in the lower-cased text
NamedIn(lower) ==
    {i \in 1..Len(ParkKeywords) : \E k \in ParkKeywords[i].keywords : Includes(lower, k)}

NamedParks(text) == NamedIn(toLowerCase(text))

\* the park of the first entry of a set of entries, NoPark for the empty set
FirstOf(named) ==
    IF named = {} THEN NoPark
    ELSE ParkKeywords[CHOOSE i \in named : \A j \in named : i <= j].park

\* the resolution res has the target park that follows from `first`, the first park
\* its input names, and leaves the current park, park, as it was when no park is
\* named and the Pattern Responder requests none
ResolvedFor(res, park, first) ==
    /\ analyzeQuery(res.input).targetPark = first
    /\ res.targetPark = IF first # NoPark THEN first ELSE res.st.currentPark
    /\ (first = NoPark /\ res.pattern.setCurrentPark = NoPark)
       => park = res.st.currentPark

(***************************************************************************)
(* C19: the Query Analyzer resolves the target park to the first park, in  *)
(* the order Magic Kingdom, EPCOT, Hollywood Studios, Animal Kingdom, one  *)
(* of whose keywords is a substring of the lower-cased input; when none    *)
(* occurs the park is unresolved and the message is resolved against the   *)
(* current park, which processUserInput leaves as it is.  Stated at the    *)
(* step that accepts the message.                                          *)
(***************************************************************************)
C19_FirstNamedParkIsTarget ==
    [][AcceptedSubmit
       => \E first \in {FirstOf(NamedParks(resolution'.input))} :
             ResolvedFor(resolution', currentPark', first)]_vars

\* a text that names two parks, the later one of the order first, was resolved to
\* the earlier one while another park was current
C19_Witness ==
    /\ resolution.pc = "settled"
    /\ resolution.input = "ak or hs"
    /\ NamedParks(resolution.input) = {3, 4}
    /\ resolution.targetPark = "hollywoodStudios"
    /\ resolution.st.currentPark = "epcot"

\* entry i of the attraction table has a live record in the render st: a cached
\* attraction of the owning park whose lower-cased name contains the keyword
HasLiveRecord(st, i) ==
    \E a \in 1..Len(st.allAttractions) :
        /\ st.allAttractions[a].park = ATTRACTION_TO_PARK[i][2]
        /\ Includes(toLowerCase(st.allAttractions[a].name), ATTRACTION_TO_PARK[i][1])

\* the resolution res was answered with the location of entry i alone, and the
\* current park, park, is the park that owns it
LocationOnlyAnswer(res, park, i) ==
    /\ res.pattern.matched
    /\ res.result.stage = "pattern"
    /\ res.requests = 0
    /\ Includes(res.result.text, " is located at " \o PARK_NAMES[ATTRACTION_TO_PARK[i][2]])
    /\ Includes(res.result.text, "Try asking about it again")
    /\ ~Includes(res.result.text, "minute wait")
    /\ res.pattern.setCurrentPark = ATTRACTION_TO_PARK[i][2]
    /\ park = ATTRACTION_TO_PARK[i][2]

\* C15 as stated, for the keywords found in the input of res
UnrecordedSwitches(res, park, keywords) ==
    \A i \in keywords :
        (keywords = {i} /\ ~HasLiveRecord(res.st, i)) => LocationOnlyAnswer(res, park, i)

(***************************************************************************)
(* C15: when the input holds a known attraction keyword for which no live  *)
(* record is cached, for every target park the Pattern Responder switches  *)
(* the current park to the owning park and returns a location-only answer  *)
(* that prompts to ask again; it does not return no-match.  Stated for     *)
(* the inputs that hold one keyword, at the step that accepts the message. *)
(***************************************************************************)
C15_UnrecordedKeywordSwitches ==
    [][AcceptedSubmit
       => \E keywords \in {KeywordsIn(resolution'.input)} :
             UnrecordedSwitches(resolution', currentPark', keywords)]_vars

\* the keywords at which the loop of tryPatternMatch can return: those with a live
\* record or with an owning park other than the target park
Answerable(res, keywords) ==
    {i \in keywords : \/ HasLiveRecord(res.st, i)
                      \/ ATTRACTION_TO_PARK[i][2] # res.targetPark}

\* C15 amended, for the keywords found in the input and the answerable ones of them
UnrecordedElsewhereSwitches(res, park, keywords, answerable) ==
    /\ \A i \in answerable :
            ((\A j \in answerable : i <= j) /\ ~HasLiveRecord(res.st, i))
            => LocationOnlyAnswer(res, park, i)
    /\ (keywords # {} /\ answerable = {})
       => /\ res.pattern.setCurrentPark = NoPark
          /\ ~Includes(res.pattern.text, " is located at ")
          /\ park = res.targetPark

(***************************************************************************)
(* C15, amended: take the first keyword of the attraction table, in table  *)
(* order, that occurs in the input and either has a live record or is      *)
(* owned by a park other than the target park.  When it has no live        *)
(* record, the Pattern Responder switches the current park to its owning   *)
(* park and returns the location-only answer that prompts to ask again,    *)
(* and no completion request is made.  When every keyword in the input     *)
(* lacks a live record and is owned by the target park, the attraction     *)
(* rule is skipped: the current park stays the target park and the         *)
(* Pattern Responder's result is not the location-only answer.  Stated at  *)
(* the step that accepts the message.                                      *)
(***************************************************************************)
C15_UnrecordedKeywordElsewhereSwitches ==
    [][AcceptedSubmit
       => \E keywords \in {KeywordsIn(resolution'.input)} :
          \E answerable \in {Answerable(resolution', keywords)} :
             UnrecordedElsewhereSwitches(resolution', currentPark', keywords,
                                         answerable)]_vars

\* Frozen Ever After, which has no live record, asked about from Magic Kingdom: the
\* answer is its location and the current park becomes EPCOT
C15_Witness ==
    /\ Determined
    /\ resolution.input = "is frozen ever after fun"
    /\ resolution.st.currentPark = "magicKingdom"
    /\ resolution.st.allAttractions # << >>
    /\ ~(\E i \in KeywordsIn(resolution.input) : HasLiveRecord(resolution.st, i))
    /\ Includes(resolution.result.text, "Frozen Ever After is located at")
    /\ currentPark = "epcot"

\* the cached attraction records of the park
RecordsOf(parkId) ==
    {k \in 1..Len(allAttractions) : allAttractions[k].park = parkId}

\* the refresh has run to its end
Refreshed == load.pc = "done"

(***************************************************************************)
(* C16: in a data refresh a category that fails or comes back empty never  *)
(* blocks the other categories: for every combination of outcomes, what    *)
(* was fetched successfully for a park in a category (the proxy answered   *)
(* 2xx with the park's data) is in the cache after the refresh.            *)
(***************************************************************************)
C16_FetchedCategoriesAreCached ==
    Refreshed =>
        \A p \in ParkIds :
            /\ proxy[p]["waitTimes"] = "ok"
               => \A a \in 1..Len(WaitTimesBody(p).attractions) :
                     \E k \in RecordsOf(p) :
                        allAttractions[k].name = WaitTimesBody(p).attractions[a].name
            /\ (proxy[p]["entertainment"] = "ok" /\ EntertainmentBody(p).hasEntertainment)
               => \E k \in 1..Len(allEntertainment) :
                     allEntertainment[k] =
                        [park |-> p, entertainment |-> EntertainmentBody(p).entertainment]
            /\ proxy[p]["characterMeets"] = "ok"
               => \A m \in 1..Len(CharacterMeetsBody(p).characterMeets) :
                     \E k \in 1..Len(allCharacterMeets) :
                        /\ allCharacterMeets[k].park = p
                        /\ allCharacterMeets[k].location =
                              CharacterMeetsBody(p).characterMeets[m].location
            /\ proxy[p]["parkHours"] = "ok"
               => \E k \in 1..Len(allParkHours) :
                     allParkHours[k] = [park |-> p, hours |-> ParkHoursBody(p)]

\* the park's wait-times request ended in a non-2xx status or failed
WaitTimesFailed(p) == proxy[p]["waitTimes"] \in {"http_error", "network_error"}

\* the park's wait-times request was answered 2xx with a body that has no (or an
\* empty) attractions field
WaitTimesAbsent(p) ==
    \/ proxy[p]["waitTimes"] = "ok_empty"
    \/ proxy[p]["waitTimes"] = "ok" /\ Len(WaitTimesBody(p).attractions) = 0

\* no error has surfaced from the refresh: the busy flag is clear and the history
\* holds the welcome message alone
RefreshEndedQuietly ==
    /\ ~isLoading
    /\ Len(messages) = 1
    /\ messages[1].text = WelcomeText

WholeCache(st) ==
    \/ /\ st.allAttractions = << >>
       /\ st.allEntertainment = << >>
       /\ st.allParkHours = << >>
       /\ st.allCharacterMeets = << >>
    \/ /\ Refreshed
       /\ st.allAttractions = load.allData
       /\ st.allEntertainment = load.allEntertainment
       /\ st.allParkHours = load.allParkHours
       /\ st.allCharacterMeets = load.allCharacterMeets

(***************************************************************************)
(* C18: cached data is replaced as a whole.  At every moment the four      *)
(* caches are all the initial empty data or all come from the same         *)
(* completed refresh, and so are the four caches that a message            *)
(* resolution reads: a resolution never reads a partially replaced cache.  *)
(***************************************************************************)
C18_ResolutionReadsWholeCache ==
    /\ WholeCache(Render)
    /\ resolution.pc # "idle" => WholeCache(resolution.st)

\* the completion failed and the fallback answered from caches that all come from
\* the completed refresh
C18_Witness ==
    /\ Determined
    /\ resolution.result.stage = "fallback"
    /\ resolution.st.allAttractions # << >>
    /\ resolution.st.allParkHours # << >>
    /\ resolution.st.allEntertainment # << >>
    /\ resolution.st.allCharacterMeets # << >>
    /\ resolution.st.allParkHours = load.allParkHours
    /\ resolution.st.allAttractions = load.allData

\* the transcription request of the settled call failed: fetch rejected or the
\* status was not 2xx
TranscriptionFailed(call) == call.outcome.kind \in {"network_error", "http_error"}

\* the texts of the calls that did not raise, in order
Transcribed(calls) ==
    LET Values[k \in 0..Len(calls)] ==
            IF k = 0 THEN << >>
            ELSE IF calls[k].threw THEN Values[k - 1]
            ELSE Append(Values[k - 1], calls[k].value)
    IN  Values[Len(calls)]

(***************************************************************************)
(* C20: a transcription failure (a non-2xx status or a network error) is   *)
(* propagated to the caller as an error; transcribeAudio sends exactly one *)
(* request per call and makes no retry; processVoiceInput invokes          *)
(* onTranscription only after a successful transcription, with its text.   *)
(***************************************************************************)
C20_TranscriptionFailurePropagates ==
    /\ \A k \in 1..Len(voice.settled) :
            TranscriptionFailed(voice.settled[k]) => voice.settled[k].threw
    /\ voice.requests = Len(voice.settled) + (IF voice.pc = "transcribing" THEN 1 ELSE 0)
    /\ voice.callbacks = Transcribed(voice.settled)

\* three calls have settled: one failed with a non-2xx status and raised, one
\* failed on the network and raised, one succeeded and was handed to the callback
C20_Witness ==
    /\ voice.pc = "idle"
    /\ Len(voice.settled) = 3
    /\ voice.requests = 3
    /\ voice.settled[1].outcome.kind = "http_error"
    /\ voice.settled[1].threw
    /\ voice.settled[2].outcome.kind = "ok"
    /\ voice.callbacks = <<"what are epcot's hours">>
    /\ voice.settled[3].outcome.kind = "network_error"
    /\ voice.settled[3].threw

\* the step is a call of handleFeedback
FeedbackStep == Len(feedbackCalls') = Len(feedbackCalls) + 1

\* message i is in the next state what it is now, but for its feedback field
SameButFeedback(i) ==
    /\ messages'[i].id = messages[i].id
    /\ messages'[i].text = messages[i].text
    /\ messages'[i].isUser = messages[i].isUser
    /\ messages'[i].showFeedback = messages[i].showFeedback

(***************************************************************************)
(* C21: the message list is append-only after the welcome message.  Every  *)
(* step leaves the id, text, author and position of the existing messages  *)
(* unchanged and adds messages at the end only; a feedback attachment      *)
(* adds none and changes nothing but the feedback field of the messages    *)
(* with the given id, whether or not a resolution is in progress; no other *)
(* step changes a feedback field.                                          *)
(***************************************************************************)
C21_MessagesAppendOnly ==
    [][/\ Len(messages') >= Len(messages)
       /\ \A i \in 1..Len(messages) : SameButFeedback(i)
       /\ FeedbackStep
          => /\ Len(messages') = Len(messages)
             /\ \A i \in 1..Len(messages) :
                    messages[i].id # feedbackCalls'[Len(feedbackCalls')].feedbackData.messageId
                    => messages'[i] = messages[i]
       /\ ~FeedbackStep
          => \A i \in 1..Len(messages) : messages'[i].feedback = messages[i].feedback]_vars

\* the welcome message got feedback while the resolution was in progress, the
\* apology was appended after it and got feedback once the session was idle
C21_Witness ==
    /\ Len(messages) = 3
    /\ messages[3].text = ApologyText
    /\ ~isLoading
    /\ Len(feedbackCalls) = 2
    /\ feedbackCalls[1].feedbackData.messageId = messages[1].id
    /\ Len(WelcomeText) > 100
    /\ feedbackCalls[2].feedbackData.messageId = messages[3].id
    /\ messages[1].feedback # NoFeedback
    /\ messages[2].feedback = NoFeedback
    /\ messages[3].feedback # NoFeedback

\* the texts of the accepted submissions, in submission order: every accepted
\* submission appends its text as a user message
AcceptedInputs ==
    LET IsUser(m) == m.isUser
        users == SelectSeq(messages, IsUser)
    IN  [i \in 1..Len(users) |-> users[i].text]

\* the step is a submission that was rejected
RejectedSubmit == lastEvent' = "submit" /\ Len(messages') = Len(messages)

(***************************************************************************)
(* C22: after any sequence of accepted submissions the recent-input buffer *)
(* holds at most 5 entries and is the last min(5, n) accepted input texts  *)
(* in submission order; a rejected submission never changes it.           *)
(***************************************************************************)
C22_BufferIsLastFiveInputs ==
    /\ [](/\ Len(conversationContext) <= 5
          /\ conversationContext = LastN(AcceptedInputs, 5))
    /\ [][RejectedSubmit => conversationContext' = conversationContext]_vars

\* seven submissions were accepted and the buffer has lost the first two
C22_Witness ==
    /\ Len(AcceptedInputs) = 7
    /\ Len(conversationContext) = 5
    /\ AcceptedInputs[1] = "hello"
    /\ AcceptedInputs[2] = "animal kingdom hours"
    /\ conversationContext[1] = AcceptedInputs[3]
    /\ conversationContext[5] = AcceptedInputs[7]
    /\ conversationContext[1] # conversationContext[2]

\* the resolution ended in the catch block of the completion request
FellBack == resolution.pc \in {"settled", "idle"} /\ resolution.result.stage = "fallback"

\* the answer the priority order gives for a query with this analysis, from the
\* records of the target park in the render the resolution read
PriorityKind(analysis, shows, meets, rides) ==
    IF analysis.isEntertainmentQuery /\ Len(shows) > 0 THEN "entertainment"
    ELSE IF analysis.isCharacterQuery /\ Len(meets) > 0 THEN "characters"
    ELSE IF analysis.isAttractionQuery /\ Len(rides) > 0 THEN "attractions"
    ELSE "summary"

\* the answer the text is, told by its heading
KindOf(text) ==
    IF Includes(text, "**Entertainment at ") THEN "entertainment"
    ELSE IF Includes(text, "**Character Meets at ") THEN "characters"
    ELSE IF Includes(text, " Top Attractions:**") THEN "attractions"
    ELSE IF Includes(text, "I have enhanced data including ") THEN "summary"
    ELSE "other"

\* an attraction list names the first five rides of the park and no other
ListsFirstFive(text, rides) ==
    \A i \in 1..Len(rides) : Includes(text, rides[i].name) <=> i <= 5

FallbackFollowsPriority(res) ==
    \E rides \in {OfPark(res.st.allAttractions, res.targetPark)} :
    \E kind \in {PriorityKind(analyzeQuery(res.input),
                              EntertainmentOf(res.st.allEntertainment, res.targetPark),
                              OfPark(res.st.allCharacterMeets, res.targetPark), rides)} :
        /\ ~res.result.threw
        /\ KindOf(res.result.text) = kind
        /\ kind = "attractions" => ListsFirstFive(res.result.text, rides)

(***************************************************************************)
(* C23: when the completion request fails the answer is chosen in strict   *)
(* priority order: the entertainment list if the query is entertainment-   *)
(* classified and the target park has entertainment records; otherwise the *)
(* character list if it is character-classified and the park has character *)
(* meets; otherwise the list of the first five attractions at most if it   *)
(* is attraction-classified and the park has attractions; otherwise the    *)
(* count summary.                                                          *)
(***************************************************************************)
C23_FallbackPriority == FellBack => FallbackFollowsPriority(resolution)

\* an entertainment- and attraction-classified question fell back at a park with six
\* rides and no entertainment records, and got the first five rides
C23_Witness ==
    /\ FellBack
    /\ resolution.input = "show me all rides"
    /\ Len(OfPark(resolution.st.allAttractions, resolution.targetPark)) = 6
    /\ Len(EntertainmentOf(resolution.st.allEntertainment, resolution.targetPark)) = 0
    /\ KindOf(resolution.result.text) = "attractions"

\* the 12-hour clock string of hh:mm
Hour12(hh) == IF hh = 0 THEN 12 ELSE IF hh <= 12 THEN hh ELSE hh - 12

TwelveHour(hh, mm) ==
    ToString(Hour12(hh)) \o ":" \o TwoDigits(mm) \o (IF hh < 12 THEN " AM" ELSE " PM")

\* formatTime was called with a time of the day and returned its 12-hour string
ConvertsText(text, result) ==
    \A hh \in 0..23 :
        SubSeq(text, 1, Len(text) - 3) \in {ToString(hh), TwoDigits(hh)}
        => \A mm \in 0..59 :
              text = ClockText(hh, mm, Len(text) = 5)
              => /\ Hour12(hh) \in 1..12
                 /\ result = JStr(TwelveHour(hh, mm))

ConvertsClock ==
    formatted.militaryTime.t = "string" /\ Len(formatted.militaryTime.s) \in {4, 5}
    => ConvertsText(formatted.militaryTime.s, formatted.result)

\* the argument has no ':'
NoColon(v) == v.t # "string" \/ ~Includes(v.s, ":")

\* C24 as stated: the conversion, and every argument without ':' returned unchanged
C24_FormatTimeTotal ==
    formatted.called
    => /\ ConvertsClock
       /\ NoColon(formatted.militaryTime) => formatted.result = formatted.militaryTime

(***************************************************************************)
(* C24: formatTime converts every 24-hour time hh:mm with hh in 0..23 to   *)
(* the 12-hour clock string whose hour is in 1..12 and whose suffix is AM  *)
(* exactly when hh < 12 (0 gives 12 AM, 1..11 the same hour AM, 12 gives   *)
(* 12 PM, 13..23 give hh-12 PM), the minutes unchanged; a string without   *)
(* ':' and a falsy value (null, the empty string, 0) are returned          *)
(* unchanged; a number other than 0 raises.                                *)
(***************************************************************************)
C24_FormatTimeConverts ==
    formatted.called
    => /\ ConvertsClock
       /\ NoColon(formatted.militaryTime)
          => formatted.result =
                IF formatted.militaryTime.t = "string" \/ ~Truthy(formatted.militaryTime)
                THEN formatted.militaryTime
                ELSE Thrown

\* midnight plus five minutes became 12:05 AM
C24_Witness ==
    /\ formatted.called
    /\ formatted.militaryTime = JStr("00:05")
    /\ formatted.result = JStr("12:05 AM")

\* the messages of the assistant after the welcome message: replies and apologies
Replies == Len(messages) - 1 - UserMessages

(***************************************************************************)
(* C25: every accepted submission eventually leads to an assistant message *)
(* and to the session being idle again, provided the completion request    *)
(* eventually succeeds or fails: from the n-th accepted submission on, the  *)
(* n-th reply or apology is eventually in the list with the busy flag       *)
(* clear; and once the pipeline has returned or raised the busy flag is     *)
(* eventually cleared.                                                      *)
(***************************************************************************)
C25_SubmissionIsAnswered ==
    /\ \A n \in 1..MaxLiveSends :
          (UserMessages = n) ~> (Replies >= n /\ ~isLoading /\ resolution.pc = "idle")
    /\ Determined ~> ~isLoading

\* the second exchange of a session ended: the first resolution raised and got the
\* apology, the second was answered after the completion request failed
C25_Witness ==
    /\ UserMessages = 2
    /\ Replies = 2
    /\ ~isLoading
    /\ resolution.pc = "idle"
    /\ resolution.requests = 1
    /\ resolution.result.stage = "fallback"
    /\ messages[3].text = ApologyText

\* the step is the one that ends the refresh: the pass for the last park, the
\* setters and the finally block
RefreshEnds == load.pc = "fetching" /\ load'.pc = "done"

(***************************************************************************)
(* C26: the data refresh and the message resolution share the busy flag.   *)
(* A submission made during the refresh is rejected and appends no         *)
(* message; the step that ends the refresh clears the flag, whether or not *)
(* a request failed; and no resolution is outstanding when it does, so the *)
(* end of the refresh never clears the flag under a resolution.            *)
(***************************************************************************)
C26_RefreshAndResolutionShareFlag ==
    /\ [][lastEvent' = "submit" /\ load.pc = "fetching"
           => /\ messages' = messages
              /\ resolution' = resolution
              /\ outstanding' = outstanding
              /\ isLoading']_vars
    /\ [][RefreshEnds => isLoading /\ ~isLoading' /\ outstanding = 0]_vars
    /\ [](outstanding > 0 => isLoading /\ load.pc = "done")

\* a non-blank text was submitted during the refresh, after the requests for the
\* first park had failed, and was rejected: it is still in the text field
C26_Witness ==
    /\ lastEvent = "submit"
    /\ load.pc = "fetching"
    /\ load.index > 1
    /\ proxy["magicKingdom"]["waitTimes"] = "http_error"
    /\ inputText = "hello"
    /\ Len(messages) = 1
    /\ isLoading

\* the two districts of the park selector
Districts == {"disneySprings", "resorts"}

\* a message has been accepted and its target park is a district
DistrictTarget == resolution.input # "" /\ resolution.targetPark \in Districts

(***************************************************************************)
(* C27: a message whose target park is a district (Disney Springs or      *)
(* Resorts) is answered without a completion request: its response is      *)
(* determined in the submit event and is the text of the reply.  The       *)
(* analysis of a message never gives a district, so the target park is a   *)
(* district only when the district is the selected park and the message    *)
(* names no theme park.                                                    *)
(***************************************************************************)
C27_DistrictNeverReachesCompletion ==
    /\ resolution.input # "" => Analysis.targetPark \notin Districts
    /\ DistrictTarget
       => /\ resolution.requests = 0
          /\ resolution.pc \in {"settled", "idle"}
          /\ ~resolution.result.threw
          /\ resolution.result.text # ""
          /\ resolution.pc = "idle"
             => messages[Len(messages)].text = resolution.result.text
          /\ resolution.st.currentPark = resolution.targetPark
          /\ Analysis.targetPark = NoPark

\* a greeting sent with Resorts selected, which at a theme park goes to the
\* completion provider, was answered
C27_Witness ==
    /\ DistrictTarget
    /\ resolution.targetPark = "resorts"
    /\ resolution.input = "hello"
    /\ resolution.pc = "idle"
    /\ resolution.requests = 0
    /\ Len(messages) = 3
    /\ messages[3].text = resolution.result.text

\* the flag the provider reported for the attraction the cached record k was made
\* from agrees with the record: reported closed is cached closed, reported open is
\* cached open
FlagAsReported(k, reported) ==
    /\ allAttractions[k].name = reported.name
    /\ reported.isOpen \in {"true", "false"}
    => allAttractions[k].isOpen = (reported.isOpen = "true")

(***************************************************************************)
(* C28: after a refresh the open/closed flag of every cached attraction is *)
(* the flag the provider reported for it: an attraction reported closed is *)
(* cached as closed, one reported open as open.                            *)
(***************************************************************************)
C28_CachedFlagIsReportedFlag ==
    Refreshed
    => \A k \in 1..Len(allAttractions) :
          proxy[allAttractions[k].park]["waitTimes"] = "ok"
          => \A i \in 1..Len(WaitTimesBody(allAttractions[k].park).attractions) :
                FlagAsReported(k, WaitTimesBody(allAttractions[k].park).attractions[i])

\* every call of startMonitoring made before the last stopMonitoring has returned,
\* and none was made after it
StoppedAndReturned ==
    /\ monitor.stops > 0
    /\ \A i \in 1..Len(monitor.starts) :
          monitor.starts[i].stopped /\ monitor.starts[i].pc = "returned"

(***************************************************************************)
(* C29: for any interleaving of startMonitoring and stopMonitoring at most *)
(* one monitoring timer is active at any time, and once a stopMonitoring   *)
(* call has completed and every startMonitoring call made before it has    *)
(* returned, no monitoring timer remains scheduled.                        *)
(***************************************************************************)
C29_AtMostOneTimerNoneAfterStop ==
    /\ Cardinality(monitor.timers) <= 1
    /\ StoppedAndReturned => monitor.timers = {}

\* the button is up and no start and no stop is in progress
ButtonAtRest ==
    ~recorder.pressed /\ recorder.starting = {} /\ recorder.stopping = {}

(***************************************************************************)
(* C30: every recording started by a press is stopped after the release,   *)
(* whenever the release comes relative to the asynchronous start: with the *)
(* button up and every start and stop completed no recording is active;    *)
(* and the URI of a recording is delivered to onVoiceResult at most once.  *)
(***************************************************************************)
C30_ReleaseStopsRecording ==
    /\ ButtonAtRest => recorder.active = {}
    /\ \A i, j \in 1..Len(recorder.delivered) :
          recorder.delivered[i] = recorder.delivered[j] => i = j

====
